---- MODULE Spec2Model ----
(***************************************************************************)
(* Bank-statement conversion pipeline: the normalizer, validator and       *)
(* summary of backend/transaction_processor.py and the date resolver,      *)
(* amount classifier and merge step of backend/pdf_parser.py.              *)
(*                                                                         *)
(* A Python str is modelled as a sequence of one-character strings, so     *)
(* that every regular expression, strip, split, replace and format of the  *)
(* source is computed character by character.                              *)
(***************************************************************************)
EXTENDS Integers, Sequences, FiniteSets, TLC

VARIABLES
    pc,                 \* position of the component under check
    \* TransactionProcessor._normalize_amount
    amount,             \* the raw amount string
    norm_amount,        \* _normalize_amount(amount)
    renorm_amount,      \* _normalize_amount(norm_amount)
    \* TransactionProcessor._normalize_date
    date_str,           \* the raw date string
    parse_result,       \* what date_parser.parse(date_str.strip(), dayfirst=True) yields
    norm_date,          \* _normalize_date(date_str)
    renorm_date,        \* _normalize_date(norm_date)
    \* PDFParser._find_date
    text,               \* the text searched for a date
    default_year,       \* the year filled in when the text has none
    found_date,         \* _find_date(text, default_year)
    \* PDFParser._classify_amounts
    amounts,            \* the ordered amount tokens of a row
    classified,         \* the (debit, credit, balance) returned
    \* TransactionProcessor.process / get_summary as called by convert_pdf
    transactions,       \* self.transactions: the list given to the constructor
    processed,          \* the list process() builds and returns
    summary,            \* the dict get_summary() returns
    \* the merge step of PDFParser.parse_transactions
    raw_visual,         \* candidates of _parse_visual_greedy
    raw_text,           \* candidates of _parse_text_greedy
    final_transactions, \* the merged list
    seen_visual_sigs,   \* signatures recorded from the visual candidates
    \* PDFParser._parse_text_greedy
    lines,              \* self.extracted_text.split('\n')
    doc_year,           \* self.doc_year
    last_date,          \* the last date found, carried to rows without one
    text_rows,          \* the list of candidates built so far
    \* TransactionProcessor._clean_reference
    reference_str,      \* the raw reference string
    cleaned_reference,  \* _clean_reference(reference)
    \* PDFParser._detect_column_map
    page_words,         \* page.extract_words() of the first page
    page_width,         \* page.width
    col_map,            \* the gutters returned
    \* PDFParser._clean_final
    clean_input,            \* the list given to _clean_final
    cleaned_transactions,   \* the list it returns
    \* PDFParser.parse_transactions
    azure_endpoint,     \* PDFParser.AZURE_ENDPOINT
    azure_key,          \* PDFParser.AZURE_KEY
    azure_outcome,      \* what _parse_with_azure does when called
    has_text,           \* bool(self.extracted_text)
    parser_out,         \* what the two heuristic parsers return when called
    calls,              \* the steps parse_transactions has run, in order
    parsed_transactions,\* the list parse_transactions returns
    \* PDFParser._parse_visual_greedy
    vis_pages,          \* pdf.pages: the words and the width of each page
    vis_year,           \* self.doc_year
    vis_col_map,        \* col_map
    vis_page,           \* the index of the page being scanned
    vis_lines,          \* lines of that page
    vis_line,           \* the index of the line being scanned
    vis_transactions,   \* transactions
    vis_last_date,      \* last_date
    \* TransactionProcessor._clean_description
    description_str,    \* the raw description
    cleaned_description,\* _clean_description(description)
    \* app.py: convert_pdf, download_file, cleanup_job
    jobs,               \* the dict jobs: job id -> upload_path, output_path
    disk,               \* the paths that exist under uploads/ and outputs/
    credentials,        \* os.path.exists('service_account.json')
    next_job,           \* the number of job ids uuid4 has handed out
    response,           \* the last response of convert_pdf or download_file
    registered,         \* the job ids a convert has stored in jobs
    cleaned,            \* the job ids a cleanup has answered as cleaned up
    worker_pc,          \* the position of each cleanup_job request
    worker_job,         \* its job_id
    worker_data,        \* its job_data
    worker_resp,        \* its response
    worker_live         \* whether its job_id was in jobs when it arrived

amount_vars == <<amount, norm_amount, renorm_amount>>
date_vars == <<date_str, parse_result, norm_date, renorm_date>>
find_vars == <<text, default_year, found_date>>
classify_vars == <<amounts, classified>>
process_vars == <<transactions, processed, summary>>
merge_vars == <<raw_visual, raw_text, final_transactions, seen_visual_sigs>>
text_vars == <<lines, doc_year, last_date, text_rows>>
reference_vars == <<reference_str, cleaned_reference>>
gutter_vars == <<page_words, page_width, col_map>>
clean_vars == <<clean_input, cleaned_transactions>>
select_vars == <<azure_endpoint, azure_key, azure_outcome, has_text, parser_out, calls, parsed_transactions>>
visual_vars == <<vis_pages, vis_year, vis_col_map, vis_page, vis_lines, vis_line, vis_transactions, vis_last_date>>
description_vars == <<description_str, cleaned_description>>
jobs_vars == <<jobs, disk, credentials, next_job, response, registered, cleaned, worker_pc, worker_job, worker_data, worker_resp, worker_live>>

vars == <<pc, amount_vars, date_vars, find_vars, classify_vars, process_vars, merge_vars, text_vars, reference_vars, gutter_vars, clean_vars, select_vars, visual_vars, description_vars, jobs_vars>>

(***************************************************************************)
(* Characters and strings                                                  *)
(***************************************************************************)
DigitSeq == <<"0", "1", "2", "3", "4", "5", "6", "7", "8", "9">>
Digits == {DigitSeq[i] : i \in 1..10}
DigitVal(c) == (CHOOSE i \in 1..10 : DigitSeq[i] = c) - 1

LowerSeq == <<"a", "b", "c", "d", "e", "f", "g", "h", "i", "j", "k", "l", "m",
              "n", "o", "p", "q", "r", "s", "t", "u", "v", "w", "x", "y", "z">>
UpperSeq == <<"A", "B", "C", "D", "E", "F", "G", "H", "I", "J", "K", "L", "M",
              "N", "O", "P", "Q", "R", "S", "T", "U", "V", "W", "X", "Y", "Z">>
LowerLetters == {LowerSeq[i] : i \in 1..26}
UpperLetters == {UpperSeq[i] : i \in 1..26}
Letters == LowerLetters \cup UpperLetters

\* \s of the re module and the characters str.strip() / str.split() remove
Whitespace == {" ", "\t", "\n"}
\* \w of the re module (ASCII part)
WordChars == Letters \cup Digits \cup {"_"}
\* the class [R$...\s] of currency symbols removed from amounts
CurrencyChars == {"R", "$"} \cup Whitespace

Empty == <<>>

\* str.lower() / str.upper() of one character
LowerChar(c) ==
    IF c \in UpperLetters THEN LowerSeq[CHOOSE i \in 1..26 : UpperSeq[i] = c] ELSE c
UpperChar(c) ==
    IF c \in LowerLetters THEN UpperSeq[CHOOSE i \in 1..26 : LowerSeq[i] = c] ELSE c
Lower(s) == [i \in DOMAIN s |-> LowerChar(s[i])]
Upper(s) == [i \in DOMAIN s |-> UpperChar(s[i])]

\* c in s
Contains(s, c) == \E i \in DOMAIN s : s[i] = c
\* s.count(c)
Count(s, c) == Cardinality({i \in DOMAIN s : s[i] = c})
\* s.rfind(c), 1-based, 0 when absent
RFind(s, c) == IF Contains(s, c) THEN CHOOSE i \in DOMAIN s :
                                          s[i] = c /\ \A j \in DOMAIN s : s[j] = c => j <= i
               ELSE 0
\* s.find(c), 1-based, 0 when absent
Find(s, c) == IF Contains(s, c) THEN CHOOSE i \in DOMAIN s :
                                         s[i] = c /\ \A j \in DOMAIN s : s[j] = c => j >= i
              ELSE 0
\* re.sub('[^S]', '', s): keep the characters of S
Keep(s, S) == SelectSeq(s, LAMBDA c : c \in S)
\* re.sub('[S]', '', s): remove the characters of S
Remove(s, S) == SelectSeq(s, LAMBDA c : c \notin S)
\* s.replace(a, b) for single characters
ReplaceChar(s, a, b) == [i \in DOMAIN s |-> IF s[i] = a THEN b ELSE s[i]]

RECURSIVE LStrip(_)
LStrip(s) == IF s # Empty /\ Head(s) \in Whitespace THEN LStrip(Tail(s)) ELSE s
RECURSIVE RStrip(_)
RStrip(s) == IF s # Empty /\ s[Len(s)] \in Whitespace
             THEN RStrip(SubSeq(s, 1, Len(s) - 1)) ELSE s
\* s.strip()
Strip(s) == RStrip(LStrip(s))

RECURSIVE Pow10(_)
Pow10(n) == IF n = 0 THEN 1 ELSE 10 * Pow10(n - 1)

\* int() of a string of digits
RECURSIVE DigitsToNat(_)
DigitsToNat(s) == IF s = Empty THEN 0
                  ELSE 10 * DigitsToNat(SubSeq(s, 1, Len(s) - 1)) + DigitVal(s[Len(s)])

\* str() of a natural number
RECURSIVE NatToDigits(_)
NatToDigits(n) == IF n < 10 THEN <<DigitSeq[n + 1]>>
                  ELSE NatToDigits(n \div 10) \o <<DigitSeq[(n % 10) + 1]>>

\* s.zfill(w) for a string without sign
RECURSIVE ZFill(_, _)
ZFill(s, w) == IF Len(s) >= w THEN s ELSE ZFill(<<"0">> \o s, w)

(***************************************************************************)
(* float() and the format '.2f'                                            *)
(*                                                                         *)
(* A float is kept as an exact decimal: sign, numerator and number of      *)
(* fraction digits.  float() accepts an optional sign, digits and at most  *)
(* one period, with at least one digit, surrounded by whitespace; the      *)
(* exponent, 'inf', 'nan' and '_' forms need characters that no string of  *)
(* this model contains.  A string with more integer digits than the        *)
(* largest double has is converted to infinity.                            *)
(***************************************************************************)
NoFloat == [ok |-> FALSE, neg |-> FALSE, num |-> 0, frac |-> 0, inf |-> FALSE]

\* the number of digits of the largest double, 1.797...e308
FloatMaxDigits == 309

\* the digits before the period, without leading zeros
RECURSIVE SignificantDigits(_)
SignificantDigits(ds) ==
    IF ds # Empty /\ Head(ds) = "0" THEN SignificantDigits(Tail(ds)) ELSE ds
IntegerDigits(body) ==
    SignificantDigits(IF Find(body, ".") = 0 THEN body
                      ELSE SubSeq(body, 1, Find(body, ".") - 1))

PyFloat(str) ==
    LET s    == Strip(str)
        sign == s # Empty /\ Head(s) \in {"-", "+"}
        body == IF sign THEN Tail(s) ELSE s
        dot  == Find(body, ".")
        ds   == Remove(body, {"."})
    IN  IF /\ \A i \in DOMAIN body : body[i] \in Digits \cup {"."}
           /\ Count(body, ".") <= 1
           /\ ds # Empty
        THEN IF Len(IntegerDigits(body)) > FloatMaxDigits
             THEN [ok |-> TRUE, neg |-> sign /\ Head(s) = "-", num |-> 0, frac |-> 0,
                   inf |-> TRUE]
             ELSE [ok   |-> TRUE,
                   neg  |-> sign /\ Head(s) = "-",
                   num  |-> DigitsToNat(ds),
                   frac |-> IF dot = 0 THEN 0 ELSE Len(body) - dot,
                   inf  |-> FALSE]
        ELSE NoFloat

\* the value in hundredths, rounded as '.2f' rounds (an exact decimal tie is
\* rounded to even; it arises only from a 5 in the third fraction digit)
Cents(f) ==
    IF f.frac <= 2 THEN f.num * Pow10(2 - f.frac)
    ELSE LET unit == Pow10(f.frac - 2)
             q    == f.num \div unit
             r    == f.num % unit
         IN  IF 2 * r > unit \/ (2 * r = unit /\ q % 2 = 1) THEN q + 1 ELSE q

\* f"{value:.2f}": a negative value keeps its sign even when it rounds to zero;
\* infinity is printed as 'inf'
Format2f(f) ==
    LET c == Cents(f)
    IN  (IF f.neg THEN <<"-">> ELSE Empty)
        \o (IF f.inf THEN <<"i", "n", "f">>
            ELSE NatToDigits(c \div 100) \o <<".">> \o ZFill(NatToDigits(c % 100), 2))

(***************************************************************************)
(* TransactionProcessor._normalize_amount                                  *)
(***************************************************************************)
\* the separator branch with the comparison reversed: the earlier of ',' and
\* '.' taken for the decimal separator
SeparatorsResolvedEarlier(s) ==
    IF Contains(s, ",") /\ Contains(s, ".")
    THEN IF RFind(s, ".") < RFind(s, ",")
         THEN Remove(s, {","})
         ELSE ReplaceChar(Remove(s, {"."}), ",", ".")
    ELSE IF Contains(s, ",")
    THEN IF Count(s, ",") = 1 /\ Len(s) - Find(s, ",") = 2
         THEN ReplaceChar(s, ",", ".")
         ELSE Remove(s, {","})
    ELSE s

\* the branch on the decimal separators
SeparatorsResolved(s) ==
    IF Contains(s, ",") /\ Contains(s, ".")
    THEN IF RFind(s, ".") > RFind(s, ",")
         THEN Remove(s, {","})
         ELSE ReplaceChar(Remove(s, {"."}), ",", ".")
    ELSE IF Contains(s, ",")
    THEN IF Count(s, ",") = 1 /\ Len(s) - Find(s, ",") = 2
         THEN ReplaceChar(s, ",", ".")
         ELSE Remove(s, {","})
    ELSE s

\* is_negative = '-' in amount_str or '(' in amount_str
IsNegative(s) == Contains(s, "-") \/ Contains(s, "(")

NormalizeAmount(amt) ==
    IF Strip(amt) = Empty THEN Empty
    ELSE LET stripped == Remove(Strip(amt), CurrencyChars)
             numeric  == Keep(stripped, Digits \cup {",", "."})
             value    == PyFloat(SeparatorsResolved(numeric))
         IN  IF value.ok
             THEN Format2f([value EXCEPT
                               !.neg = IsNegative(stripped) /\ (value.num > 0 \/ value.inf)])
             ELSE Empty

(***************************************************************************)
(* A component that is not under check holds its variables at rest         *)
(***************************************************************************)
AmountIdle == amount = Empty /\ norm_amount = Empty /\ renorm_amount = Empty
DateIdle == /\ date_str = Empty /\ norm_date = Empty /\ renorm_date = Empty
            /\ parse_result = [ok |-> FALSE, day |-> 0, month |-> 0, year |-> 0]
FindIdle == text = Empty /\ default_year = 0 /\ found_date = <<"None">>
ClassifyIdle == amounts = Empty /\ classified = <<Empty, Empty, Empty>>
ProcessIdle == transactions = Empty /\ processed = Empty /\ summary = [total_transactions |-> 0]
MergeIdle == /\ raw_visual = Empty /\ raw_text = Empty
             /\ final_transactions = Empty /\ seen_visual_sigs = {}
TextIdle == lines = <<>> /\ doc_year = 0 /\ last_date = <<"None">> /\ text_rows = <<>>
ReferenceIdle == reference_str = Empty /\ cleaned_reference = Empty
GutterIdle == page_words = <<>> /\ page_width = 0 /\ col_map = <<>>
CleanIdle == clean_input = <<>> /\ cleaned_transactions = <<>>
SelectIdle == azure_endpoint = "" /\ azure_key = "" /\ azure_outcome = <<>> /\ has_text = FALSE /\ parser_out = <<>> /\ calls = <<>> /\ parsed_transactions = <<>>
VisualIdle == vis_pages = <<>> /\ vis_year = 0 /\ vis_col_map = <<>> /\ vis_page = 0 /\ vis_lines = <<>> /\ vis_line = 0 /\ vis_transactions = <<>> /\ vis_last_date = <<>>
DescriptionIdle == description_str = <<>> /\ cleaned_description = <<>>
JobsIdle == jobs = <<>> /\ disk = {} /\ credentials = FALSE /\ next_job = 0 /\ response = <<>> /\ registered = {} /\ cleaned = {} /\ worker_pc = <<>> /\ worker_job = <<>> /\ worker_data = <<>> /\ worker_resp = <<>> /\ worker_live = <<>>

(***************************************************************************)
(* Inputs                                                                  *)
(***************************************************************************)
\* all strings over an alphabet up to a length
RECURSIVE StringsUpTo(_, _)
StringsUpTo(alphabet, n) ==
    IF n = 0 THEN {Empty}
    ELSE LET shorter == StringsUpTo(alphabet, n - 1)
         IN  shorter \cup {<<c>> \o s : c \in alphabet, s \in {t \in shorter : Len(t) = n - 1}}

MaxAmountLen == 4
AmountAlphabet == {"0", "1", ",", ".", "-", "(", " ", "R"}

\* "1 200,00", "1,200.00", "100,00-", "(100.00)"
Amt_1_200c00 == <<"1", " ", "2", "0", "0", ",", "0", "0">>
Amt_1c200p00 == <<"1", ",", "2", "0", "0", ".", "0", "0">>
Amt_100c00m  == <<"1", "0", "0", ",", "0", "0", "-">>
Amt_p100p00p == <<"(", "1", "0", "0", ".", "0", "0", ")">>
\* "-0.001"
Amt_m0p001   == <<"-", "0", ".", "0", "0", "1">>
\* "1" followed by 309 zeros, a number above the largest double
Amt_Overflow == [i \in 1..(FloatMaxDigits + 1) |-> IF i = 1 THEN "1" ELSE "0"]

AmountExamples ==
    {Amt_1_200c00, Amt_1c200p00, Amt_100c00m, Amt_p100p00p, Amt_m0p001, Amt_Overflow}
AmountInputs == StringsUpTo(AmountAlphabet, MaxAmountLen) \cup AmountExamples

(***************************************************************************)
(* Specification of _normalize_amount applied once and twice               *)
(***************************************************************************)
InitAmount ==
    /\ pc = "amount"
    /\ amount \in AmountInputs
    /\ norm_amount = Empty
    /\ renorm_amount = Empty
    /\ DateIdle /\ FindIdle /\ ClassifyIdle /\ ProcessIdle /\ MergeIdle /\ TextIdle /\ ReferenceIdle /\ GutterIdle /\ CleanIdle /\ SelectIdle /\ VisualIdle /\ DescriptionIdle /\ JobsIdle

NormalizeAmountOnce ==
    /\ pc = "amount"
    /\ norm_amount' = NormalizeAmount(amount)
    /\ pc' = "amount_normalized"
    /\ UNCHANGED <<amount, renorm_amount>>
    /\ UNCHANGED <<date_vars, find_vars, classify_vars, process_vars, merge_vars, text_vars, reference_vars, gutter_vars, clean_vars, select_vars, visual_vars, description_vars, jobs_vars>>

NormalizeAmountTwice ==
    /\ pc = "amount_normalized"
    /\ renorm_amount' = NormalizeAmount(norm_amount)
    /\ pc' = "amount_renormalized"
    /\ UNCHANGED <<amount, norm_amount>>
    /\ UNCHANGED <<date_vars, find_vars, classify_vars, process_vars, merge_vars, text_vars, reference_vars, gutter_vars, clean_vars, select_vars, visual_vars, description_vars, jobs_vars>>

NextAmount == NormalizeAmountOnce \/ NormalizeAmountTwice

SpecAmount == InitAmount /\ [][NextAmount]_vars

(***************************************************************************)
(* Claims about _normalize_amount                                          *)
(***************************************************************************)
Amt_1200p00  == <<"1", "2", "0", "0", ".", "0", "0">>
Amt_m100p00  == <<"-", "1", "0", "0", ".", "0", "0">>
Amt_0p00     == <<"0", ".", "0", "0">>
Amt_m0p00    == <<"-", "0", ".", "0", "0">>

\* C6: normalizing an already-normalized amount yields the same string:
\* _normalize_amount(_normalize_amount(a)) = _normalize_amount(a) for every a.
C6_AmountIdempotent ==
    pc = "amount_renormalized" => renorm_amount = norm_amount

\* the digits and separators that are left of an amount when everything else is removed
C8_Numeric(a) == Keep(a, Digits \cup {",", "."})
\* the result without its sign
C8_Magnitude(out) == IF out # Empty /\ Head(out) = "-" THEN Tail(out) ELSE out
\* the two-fraction-digit string of a string of digits with one decimal separator
C8_Decimal(s) == LET f == PyFloat(s) IN IF f.ok THEN Format2f(f) ELSE Empty
\* the four examples of the decimal disambiguation
C8_Examples ==
    /\ amount = Amt_1_200c00 => norm_amount = Amt_1200p00
    /\ amount = Amt_1c200p00 => norm_amount = Amt_1200p00
    /\ amount = Amt_100c00m  => norm_amount = Amt_m100p00
    /\ amount = Amt_p100p00p => norm_amount = Amt_m100p00
\* the later of ',' and '.' is the decimal separator, the other is removed; a lone
\* ',' is the decimal separator iff it is the only comma and two digits follow it
C8_Separators ==
    LET s == C8_Numeric(amount)
    IN  /\ (Contains(s, ",") /\ Contains(s, ".") /\ RFind(s, ".") > RFind(s, ","))
             => C8_Magnitude(norm_amount) = C8_Decimal(Remove(s, {","}))
        /\ (Contains(s, ",") /\ Contains(s, ".") /\ RFind(s, ",") > RFind(s, "."))
             => C8_Magnitude(norm_amount) = C8_Decimal(ReplaceChar(Remove(s, {"."}), ",", "."))
        /\ (Contains(s, ",") /\ ~Contains(s, "."))
             => C8_Magnitude(norm_amount) =
                  IF Count(s, ",") = 1 /\ Len(s) >= 3 /\ s[Len(s) - 2] = ","
                  THEN C8_Decimal(ReplaceChar(s, ",", "."))
                  ELSE C8_Decimal(Remove(s, {","}))

\* C8 as stated: the separator rule, the four examples, and a '-' or '('
\* anywhere makes the result negative.
C8_DecimalDisambiguation ==
    pc = "amount_normalized" =>
        /\ C8_Examples
        /\ C8_Separators
        /\ (IsNegative(amount) /\ norm_amount # Empty) => Head(norm_amount) = "-"

\* C8 as amended: the separator rule, the four examples, and a '-' or '('
\* anywhere makes the result negative exactly when the digits have a non-zero
\* value; a zero value is returned unsigned.
C8_DecimalDisambiguationNonZero ==
    pc = "amount_normalized" =>
        /\ C8_Examples
        /\ C8_Separators
        /\ norm_amount # Empty =>
             (Head(norm_amount) = "-" <=>
                 /\ IsNegative(amount)
                 /\ \E i \in DOMAIN amount : amount[i] \in Digits \ {"0"})

\* "100,00-" has been normalized to "-100.00"
C8_Witness ==
    pc = "amount_normalized" /\ amount = Amt_100c00m /\ norm_amount = Amt_m100p00

(***************************************************************************)
(* datetime.strptime and strftime                                          *)
(*                                                                         *)
(* strptime turns a format into a regular expression, matches it at the    *)
(* start of the string and refuses unconverted data.  %d is one or two     *)
(* digits with value 1..31, %m one or two digits with value 1..12, %Y      *)
(* exactly four digits, %y exactly two (00-68 -> 20xx, 69-99 -> 19xx), %b  *)
(* and %B a month name in any case; a blank in the format is \s+.  Every   *)
(* format used here separates its three fields, so a string matches iff    *)
(* splitting at the separator gives exactly three fields of these shapes.  *)
(***************************************************************************)
\* s.split(c): the fields between the occurrences of c, empty ones kept
RECURSIVE SplitOn(_, _)
SplitOn(s, c) ==
    IF ~Contains(s, c) THEN <<s>>
    ELSE LET i == Find(s, c)
         IN  <<SubSeq(s, 1, i - 1)>> \o SplitOn(SubSeq(s, i + 1, Len(s)), c)

\* the first word of a string that starts with a non-blank character
RECURSIVE FirstWord(_)
FirstWord(s) == IF s = Empty \/ Head(s) \in Whitespace THEN Empty
                ELSE <<Head(s)>> \o FirstWord(Tail(s))

\* s.split(): the words between runs of whitespace
RECURSIVE SplitWS(_)
SplitWS(s) ==
    LET t == LStrip(s)
    IN  IF t = Empty THEN <<>>
        ELSE LET w == FirstWord(t)
             IN  <<w>> \o SplitWS(SubSeq(t, Len(w) + 1, Len(t)))

AllDigits(s) == \A i \in DOMAIN s : s[i] \in Digits

MonthNames == <<
    <<"j", "a", "n", "u", "a", "r", "y">>,
    <<"f", "e", "b", "r", "u", "a", "r", "y">>,
    <<"m", "a", "r", "c", "h">>,
    <<"a", "p", "r", "i", "l">>,
    <<"m", "a", "y">>,
    <<"j", "u", "n", "e">>,
    <<"j", "u", "l", "y">>,
    <<"a", "u", "g", "u", "s", "t">>,
    <<"s", "e", "p", "t", "e", "m", "b", "e", "r">>,
    <<"o", "c", "t", "o", "b", "e", "r">>,
    <<"n", "o", "v", "e", "m", "b", "e", "r">>,
    <<"d", "e", "c", "e", "m", "b", "e", "r">>
>>
MonthAbbr(i) == SubSeq(MonthNames[i], 1, 3)

\* calendar: the days of a month
IsLeap(y) == (y % 4 = 0 /\ y % 100 # 0) \/ y % 400 = 0
DaysInMonth(m, y) ==
    IF m = 2 THEN (IF IsLeap(y) THEN 29 ELSE 28)
    ELSE IF m \in {4, 6, 9, 11} THEN 30 ELSE 31

NoDate == [ok |-> FALSE, day |-> 0, month |-> 0, year |-> 0]
Date(d, m, y) == [ok |-> TRUE, day |-> d, month |-> m, year |-> y]

\* the value of a %d field, 0 when the field does not match
DayField(f) ==
    IF Len(f) \in {1, 2} /\ AllDigits(f) /\ DigitsToNat(f) \in 1..31
    THEN DigitsToNat(f) ELSE 0
\* the value of a %m, %b or %B field, 0 when the field does not match
MonthField(f, kind) ==
    IF kind = "m"
    THEN IF Len(f) \in {1, 2} /\ AllDigits(f) /\ DigitsToNat(f) \in 1..12
         THEN DigitsToNat(f) ELSE 0
    ELSE IF kind = "b"
    THEN IF \E i \in 1..12 : MonthAbbr(i) = Lower(f)
         THEN CHOOSE i \in 1..12 : MonthAbbr(i) = Lower(f) ELSE 0
    ELSE IF \E i \in 1..12 : MonthNames[i] = Lower(f)
         THEN CHOOSE i \in 1..12 : MonthNames[i] = Lower(f) ELSE 0
\* the value of a %Y or %y field, 0 when the field does not match (year 0 is
\* refused by datetime)
YearField(f, kind) ==
    IF kind = "Y"
    THEN IF Len(f) = 4 /\ AllDigits(f) THEN DigitsToNat(f) ELSE 0
    ELSE IF Len(f) = 2 /\ AllDigits(f)
         THEN (IF DigitsToNat(f) <= 68 THEN 2000 ELSE 1900) + DigitsToNat(f)
         ELSE 0

\* datetime.strptime(s, fmt) for fmt = %d <sep> %m|%b|%B <sep> %Y|%y, where sep
\* is a literal character or a blank; NoDate stands for ValueError
Strptime(s, fmt) ==
    LET fields == IF fmt.sep = " " THEN SplitWS(s) ELSE SplitOn(s, fmt.sep)
    IN  IF Len(fields) # 3 \/ (fmt.sep = " " /\ s # Strip(s)) THEN NoDate
        ELSE LET d == DayField(fields[1])
                 m == MonthField(fields[2], fmt.month)
                 y == YearField(fields[3], fmt.year)
             IN  IF d > 0 /\ m > 0 /\ y > 0 /\ d <= DaysInMonth(m, y)
                 THEN Date(d, m, y) ELSE NoDate

\* dt.strftime('%m/%d/%Y'): month and day exchanged
StrftimeMonthFirst(dt) ==
    ZFill(NatToDigits(dt.month), 2) \o <<"/">> \o ZFill(NatToDigits(dt.day), 2)
        \o <<"/">> \o NatToDigits(dt.year)

\* dt.strftime('%d/%m/%Y'); the years of this model have four digits
Strftime(dt) ==
    ZFill(NatToDigits(dt.day), 2) \o <<"/">> \o ZFill(NatToDigits(dt.month), 2)
        \o <<"/">> \o NatToDigits(dt.year)

(***************************************************************************)
(* TransactionProcessor._normalize_date                                    *)
(***************************************************************************)
\* formats = ['%d/%m/%Y', '%d-%m-%Y', '%d.%m.%Y', '%d %b %Y', '%d %B %Y',
\*            '%d/%m/%y', '%d-%m-%y']
DateFormats == <<
    [sep |-> "/", month |-> "m", year |-> "Y"],
    [sep |-> "-", month |-> "m", year |-> "Y"],
    [sep |-> ".", month |-> "m", year |-> "Y"],
    [sep |-> " ", month |-> "b", year |-> "Y"],
    [sep |-> " ", month |-> "B", year |-> "Y"],
    [sep |-> "/", month |-> "m", year |-> "y"],
    [sep |-> "-", month |-> "m", year |-> "y"] >>

\* the loop over the formats: the date of the first format that parses s
RECURSIVE FirstFormat(_, _)
FirstFormat(s, i) ==
    IF i > Len(DateFormats) THEN NoDate
    ELSE LET dt == Strptime(s, DateFormats[i])
         IN  IF dt.ok THEN dt ELSE FirstFormat(s, i + 1)

\* fuzzy is what date_parser.parse(date_str, dayfirst=True) yields for the
\* stripped string (NoDate when it raises)
NormalizeDate(str, fuzzy) ==
    IF Strip(str) = Empty THEN Empty
    ELSE LET s  == Strip(str)
             dt == FirstFormat(s, 1)
         IN  IF dt.ok THEN Strftime(dt)
             ELSE IF fuzzy.ok THEN Strftime(fuzzy)
             ELSE s

\* dateutil is a library outside the repository: on a string without any digit
\* or letter it raises; on any other string it may raise or yield a date
FuzzyDates == {Date(25, 6, 2024), Date(1, 2, 2024), Date(13, 2, 1999)}
DateutilOutcomes(s) ==
    IF \E i \in DOMAIN s : s[i] \in Digits \cup Letters
    THEN {NoDate} \cup FuzzyDates ELSE {NoDate}

(***************************************************************************)
(* Specification of _normalize_date applied once and twice                 *)
(***************************************************************************)
DayTokens == {<<"2", "5">>, <<"1">>, <<"3", "1">>, <<"4", "2">>}
MonthTokens == {<<"0", "6">>, <<"2">>, <<"1", "3">>, <<"J", "u", "n">>, <<"J", "u", "n", "e">>}
YearTokens == {<<"2", "0", "2", "4">>, <<"2", "4">>, <<"9", "9">>}
DateSeparators == {<<"/">>, <<"-">>, <<".">>, <<" ">>}
\* strings that are no date: "", " ", "-", "n/a"
NonDates == {Empty, <<" ">>, <<"-">>, <<"n", "/", "a">>}
\* the number of blanks that may surround a date string
MaxPad == 1
Blanks(n) == [i \in 1..n |-> " "]

DateInputs ==
    NonDates \cup
    {Blanks(l) \o d \o s1 \o m \o s2 \o y \o Blanks(r) :
        l \in 0..MaxPad, r \in 0..MaxPad,
        d \in DayTokens, s1 \in DateSeparators, m \in MonthTokens,
        s2 \in DateSeparators, y \in YearTokens}

InitDate ==
    /\ pc = "date"
    /\ date_str \in DateInputs
    /\ parse_result \in DateutilOutcomes(Strip(date_str))
    /\ norm_date = Empty
    /\ renorm_date = Empty
    /\ AmountIdle /\ FindIdle /\ ClassifyIdle /\ ProcessIdle /\ MergeIdle /\ TextIdle /\ ReferenceIdle /\ GutterIdle /\ CleanIdle /\ SelectIdle /\ VisualIdle /\ DescriptionIdle /\ JobsIdle

NormalizeDateOnce ==
    /\ pc = "date"
    /\ norm_date' = NormalizeDate(date_str, parse_result)
    /\ pc' = "date_normalized"
    /\ UNCHANGED <<date_str, parse_result, renorm_date>>
    /\ UNCHANGED <<amount_vars, find_vars, classify_vars, process_vars, merge_vars, text_vars, reference_vars, gutter_vars, clean_vars, select_vars, visual_vars, description_vars, jobs_vars>>

\* the second application; dateutil answers the same string the same way
NormalizeDateTwice ==
    /\ pc = "date_normalized"
    /\ \E fuzzy \in DateutilOutcomes(Strip(norm_date)) :
          /\ Strip(norm_date) = Strip(date_str) => fuzzy = parse_result
          /\ renorm_date' = NormalizeDate(norm_date, fuzzy)
    /\ pc' = "date_renormalized"
    /\ UNCHANGED <<date_str, parse_result, norm_date>>
    /\ UNCHANGED <<amount_vars, find_vars, classify_vars, process_vars, merge_vars, text_vars, reference_vars, gutter_vars, clean_vars, select_vars, visual_vars, description_vars, jobs_vars>>

NextDate == NormalizeDateOnce \/ NormalizeDateTwice

SpecDate == InitDate /\ [][NextDate]_vars

(***************************************************************************)
(* Claims about _normalize_date                                            *)
(***************************************************************************)
\* a string of the form DD/MM/YYYY
IsCanonicalDate(s) ==
    /\ Len(s) = 10
    /\ s[3] = "/" /\ s[6] = "/"
    /\ \A i \in {1, 2, 4, 5, 7, 8, 9, 10} : s[i] \in Digits

\* C5: the date of a normalized record is the empty string or of the form
\* DD/MM/YYYY; a date that cannot be parsed is cleared to empty.
C5_CanonicalDate ==
    pc = "date_normalized" => (norm_date = Empty \/ IsCanonicalDate(norm_date))

None == <<"None">>

\* the class [\s/-]
DateSepChars == Whitespace \cup {"/", "-"}

\* t[i .. i+n-1] lies in t and consists of digits
DigitsAt(t, i, n) == i >= 1 /\ i + n - 1 <= Len(t) /\ \A k \in i..(i + n - 1) : t[k] \in Digits
CharAt(t, i, S) == i >= 1 /\ i <= Len(t) /\ t[i] \in S
\* \b between t[i-1] and t[i]
BoundaryAt(t, i) == CharAt(t, i - 1, WordChars) # CharAt(t, i, WordChars)

\* the leftmost position of a set of positions, 0 when there is none
Leftmost(P) == IF P = {} THEN 0 ELSE CHOOSE i \in P : \A j \in P : i <= j

\* (\d{1,2})[\s/-](\d{1,2})[\s/-](\d{2,4}) matched at position i with group
\* lengths ld, lm, ly
FullDateAt(t, i, ld, lm, ly) ==
    /\ DigitsAt(t, i, ld)
    /\ CharAt(t, i + ld, DateSepChars)
    /\ DigitsAt(t, i + ld + 1, lm)
    /\ CharAt(t, i + ld + 1 + lm, DateSepChars)
    /\ DigitsAt(t, i + ld + lm + 2, ly)
FullDateLengths(t, i) ==
    {l \in {1, 2} \X {1, 2} \X {2, 3, 4} : FullDateAt(t, i, l[1], l[2], l[3])}
\* the groups (d, mon, y) of re.search, or <<>> when nothing matches
SearchFullDate(t) ==
    LET i == Leftmost({j \in 1..Len(t) : FullDateLengths(t, j) # {}})
    IN  IF i = 0 THEN <<>>
        ELSE LET L == FullDateLengths(t, i)
                 l == CHOOSE a \in L : \A b \in L :
                          100 * a[1] + 10 * a[2] + a[3] >= 100 * b[1] + 10 * b[2] + b[3]
             IN  <<SubSeq(t, i, i + l[1] - 1),
                   SubSeq(t, i + l[1] + 1, i + l[1] + l[2]),
                   SubSeq(t, i + l[1] + l[2] + 2, i + l[1] + l[2] + l[3] + 1)>>

\* \b(\d{1,2})[\s/-](\d{1,2})\b matched at position i with group lengths ld, lm
DayMonthAt(t, i, ld, lm) ==
    /\ BoundaryAt(t, i)
    /\ DigitsAt(t, i, ld)
    /\ CharAt(t, i + ld, DateSepChars)
    /\ DigitsAt(t, i + ld + 1, lm)
    /\ BoundaryAt(t, i + ld + 1 + lm)
DayMonthLengths(t, i) == {l \in {1, 2} \X {1, 2} : DayMonthAt(t, i, l[1], l[2])}
SearchDayMonth(t) ==
    LET i == Leftmost({j \in 1..Len(t) : DayMonthLengths(t, j) # {}})
    IN  IF i = 0 THEN <<>>
        ELSE LET L == DayMonthLengths(t, i)
                 l == CHOOSE a \in L : \A b \in L : 10 * a[1] + a[2] >= 10 * b[1] + b[2]
             IN  <<SubSeq(t, i, i + l[1] - 1), SubSeq(t, i + l[1] + 1, i + l[1] + l[2])>>

\* the length of the run of whitespace that starts at position i
RECURSIVE BlankRun(_, _)
BlankRun(t, i) == IF CharAt(t, i, Whitespace) THEN 1 + BlankRun(t, i + 1) ELSE 0

\* (\d{1,2})\s+([A-Za-z]{3}) matched at position i with day length ld
DayNameAt(t, i, ld) ==
    LET w == BlankRun(t, i + ld)
    IN  /\ DigitsAt(t, i, ld)
        /\ w >= 1
        /\ \A k \in 0..2 : CharAt(t, i + ld + w + k, Letters)
DayNameLengths(t, i) == {ld \in {1, 2} : DayNameAt(t, i, ld)}
SearchDayName(t) ==
    LET i == Leftmost({j \in 1..Len(t) : DayNameLengths(t, j) # {}})
    IN  IF i = 0 THEN <<>>
        ELSE LET L  == DayNameLengths(t, i)
                 ld == CHOOSE a \in L : \A b \in L : a >= b
                 n  == i + ld + BlankRun(t, i + ld)
             IN  <<SubSeq(t, i, i + ld - 1), SubSeq(t, n, n + 2)>>

Slash == <<"/">>

\* "Month names: 25 Jun": the day is not validated
DayNameRule(t, year) ==
    LET m == SearchDayName(t)
    IN  IF m # <<>> /\ MonthField(m[2], "b") > 0
        THEN ZFill(m[1], 2) \o Slash \o ZFill(NatToDigits(MonthField(m[2], "b")), 2)
                 \o Slash \o NatToDigits(year)
        ELSE None

\* "Missing year: 25/06 or 25 06", falling through to the month names
DayMonthRule(t, year) ==
    LET m == SearchDayMonth(t)
    IN  IF m # <<>> /\ DigitsToNat(m[1]) \in 1..31 /\ DigitsToNat(m[2]) \in 1..12
        THEN ZFill(NatToDigits(DigitsToNat(m[1])), 2) \o Slash
                 \o ZFill(NatToDigits(DigitsToNat(m[2])), 2) \o Slash \o NatToDigits(year)
        ELSE DayNameRule(t, year)

FindDate(txt, year) ==
    IF txt = Empty THEN None
    ELSE LET t == Strip(txt)
             m == SearchFullDate(t)
         IN  IF m # <<>> /\ DigitsToNat(m[1]) \in 1..31 /\ DigitsToNat(m[2]) \in 1..12
             THEN ZFill(m[1], 2) \o Slash \o ZFill(m[2], 2) \o Slash
                      \o (IF Len(m[3]) = 2 THEN <<"2", "0">> \o m[3] ELSE m[3])
             ELSE DayMonthRule(t, year)

(***************************************************************************)
(* Specification of _find_date                                             *)
(***************************************************************************)
FindDays == {<<"2", "5">>, <<"5">>, <<"4", "2">>, <<"3", "2">>}
FindMonths == {<<"0", "6">>, <<"6">>, <<"1", "3">>}
FindMonthNames == {<<"J", "u", "n">>, <<"j", "u", "n">>, <<"X", "y", "z">>}
FindYears == {<<"2", "0", "2", "4">>, <<"2", "4">>, <<"1", "2", "3">>}
FindSeparators == {<<"/">>, <<"-">>, <<" ">>}
\* what may stand before and after the date in the text
FindAffixes == {Empty, <<"1">>, <<" ">>, <<"x">>}
FindYearDefaults == {2025, 2026}

\* the three accepted forms
FullDateForm(d, s1, m, s2, y) == d \o s1 \o m \o s2 \o y
DayMonthForm(d, s, m) == d \o s \o m
DayNameForm(d, n) == d \o <<" ">> \o n

FindTexts ==
    {Empty}
    \cup {a \o FullDateForm(d, s1, m, s2, y) \o b :
            a \in FindAffixes, b \in FindAffixes, d \in FindDays, s1 \in FindSeparators,
            m \in FindMonths, s2 \in FindSeparators, y \in FindYears}
    \cup {a \o DayMonthForm(d, s, m) \o b :
            a \in FindAffixes, b \in FindAffixes, d \in FindDays, s \in FindSeparators,
            m \in FindMonths}
    \cup {a \o DayNameForm(d, n) \o b :
            a \in FindAffixes, b \in FindAffixes \cup FindYears, d \in FindDays,
            n \in FindMonthNames}

InitFind ==
    /\ pc = "find"
    /\ text \in FindTexts
    /\ default_year \in FindYearDefaults
    /\ found_date = None
    /\ AmountIdle /\ DateIdle /\ ClassifyIdle /\ ProcessIdle /\ MergeIdle /\ TextIdle /\ ReferenceIdle /\ GutterIdle /\ CleanIdle /\ SelectIdle /\ VisualIdle /\ DescriptionIdle /\ JobsIdle

FindDateStep ==
    /\ pc = "find"
    /\ found_date' = FindDate(text, default_year)
    /\ pc' = "found"
    /\ UNCHANGED <<text, default_year>>
    /\ UNCHANGED <<amount_vars, date_vars, classify_vars, process_vars, merge_vars, text_vars, reference_vars, gutter_vars, clean_vars, select_vars, visual_vars, description_vars, jobs_vars>>

NextFind == FindDateStep

SpecFind == InitFind /\ [][NextFind]_vars

(***************************************************************************)
(* Claims about _find_date                                                 *)
(***************************************************************************)
\* C3: _find_date returns None for every text whose day is greater than 31 or
\* whose month is greater than 12, in each of the three accepted forms (full
\* numeric D/M/Y, numeric D/M, day + month abbreviation), and no returned date
\* string has a day above 31.
C3_DateBounds ==
    pc = "found" =>
        /\ \A d \in FindDays, m \in FindMonths, y \in FindYears,
              s1 \in FindSeparators, s2 \in FindSeparators :
              (text = FullDateForm(d, s1, m, s2, y)
                 /\ (DigitsToNat(d) > 31 \/ DigitsToNat(m) > 12)) => found_date = None
        /\ \A d \in FindDays, m \in FindMonths, s \in FindSeparators :
              (text = DayMonthForm(d, s, m)
                 /\ (DigitsToNat(d) > 31 \/ DigitsToNat(m) > 12)) => found_date = None
        /\ \A d \in FindDays, n \in FindMonthNames :
              (text = DayNameForm(d, n) /\ DigitsToNat(d) > 31) => found_date = None
        /\ found_date # None => DigitsToNat(SubSeq(found_date, 1, 2)) <= 31

(***************************************************************************)
(* PDFParser._classify_amounts                                             *)
(***************************************************************************)
\* the sign (-1, 0, 1) of the float computed for a token; a token that float()
\* refuses counts as 0.0
TokenSign(a) ==
    LET c0 == Remove(ReplaceChar(ReplaceChar(Remove(a, CurrencyChars), ",", "."), "(", "-"),
                     {")"})
        c  == IF c0 # Empty /\ c0[Len(c0)] = "-"
              THEN <<"-">> \o SubSeq(c0, 1, Len(c0) - 1) ELSE c0
        f  == PyFloat(c)
    IN  IF ~f.ok \/ f.num = 0 THEN 0 ELSE IF f.neg THEN -1 ELSE 1

\* the loop over the transaction amounts with a zero value always taken for the
\* credit
RECURSIVE SortBySignZeroAlways(_, _, _, _)
SortBySignZeroAlways(parts, i, debit, credit) ==
    IF i > Len(parts) THEN <<debit, credit>>
    ELSE IF TokenSign(parts[i]) < 0 THEN SortBySignZeroAlways(parts, i + 1, parts[i], credit)
    ELSE SortBySignZeroAlways(parts, i + 1, debit, parts[i])

\* "2. Sort Transaction Amounts by Sign": the loop from index i on
RECURSIVE SortBySign(_, _, _, _)
SortBySign(parts, i, debit, credit) ==
    IF i > Len(parts) THEN <<debit, credit>>
    ELSE IF TokenSign(parts[i]) < 0 THEN SortBySign(parts, i + 1, parts[i], credit)
    ELSE IF TokenSign(parts[i]) > 0 THEN SortBySign(parts, i + 1, debit, parts[i])
    ELSE IF debit = Empty /\ credit = Empty THEN SortBySign(parts, i + 1, debit, parts[i])
    ELSE SortBySign(parts, i + 1, debit, credit)

\* returns <<debit, credit, balance>>
ClassifyAmounts(amts) ==
    IF amts = <<>> THEN <<Empty, Empty, Empty>>
    ELSE LET balance  == IF Len(amts) >= 2 THEN amts[Len(amts)] ELSE Empty
             tx_parts == IF Len(amts) >= 2 THEN SubSeq(amts, 1, Len(amts) - 1) ELSE amts
             dc       == SortBySign(tx_parts, 1, Empty, Empty)
         IN  <<dc[1], dc[2], balance>>

(***************************************************************************)
(* Specification of _classify_amounts                                      *)
(***************************************************************************)
\* "250,00", "(5.00)", "0,00", "-0,00"
Amt_250c00 == <<"2", "5", "0", ",", "0", "0">>
Amt_p5p00p == <<"(", "5", ".", "0", "0", ")">>
Amt_0c00   == <<"0", ",", "0", "0">>
Amt_m0c00  == <<"-", "0", ",", "0", "0">>

\* the amount tokens of a row: positive, negative (trailing minus,
\* parentheses), zero, and one that float() refuses ("1,200.00" -> "1.200.00")
AmountTokens == {Amt_1_200c00, Amt_250c00, Amt_100c00m, Amt_p5p00p, Amt_0c00, Amt_m0c00,
                 Amt_1c200p00}
MaxTokens == 3

\* all sequences over a set up to a length
RECURSIVE SeqsUpTo(_, _)
SeqsUpTo(S, n) ==
    IF n = 0 THEN {<<>>}
    ELSE LET shorter == SeqsUpTo(S, n - 1)
         IN  shorter \cup {<<x>> \o s : x \in S, s \in {t \in shorter : Len(t) = n - 1}}

InitClassify ==
    /\ pc = "classify"
    /\ amounts \in SeqsUpTo(AmountTokens, MaxTokens)
    /\ classified = <<Empty, Empty, Empty>>
    /\ AmountIdle /\ DateIdle /\ FindIdle /\ ProcessIdle /\ MergeIdle /\ TextIdle /\ ReferenceIdle /\ GutterIdle /\ CleanIdle /\ SelectIdle /\ VisualIdle /\ DescriptionIdle /\ JobsIdle

ClassifyStep ==
    /\ pc = "classify"
    /\ classified' = ClassifyAmounts(amounts)
    /\ pc' = "classified"
    /\ UNCHANGED amounts
    /\ UNCHANGED <<amount_vars, date_vars, find_vars, process_vars, merge_vars, text_vars, reference_vars, gutter_vars, clean_vars, select_vars, visual_vars, description_vars, jobs_vars>>

NextClassify == ClassifyStep

SpecClassify == InitClassify /\ [][NextClassify]_vars

(***************************************************************************)
(* Claims about _classify_amounts                                          *)
(***************************************************************************)
\* the tokens that are candidates for debit and credit: all but the balance
C9_Remaining == IF Len(amounts) >= 2 THEN SubSeq(amounts, 1, Len(amounts) - 1) ELSE amounts
\* the last remaining token of a sign, "" when there is none
C9_LastOfSign(sign) ==
    LET P == {i \in DOMAIN C9_Remaining : TokenSign(C9_Remaining[i]) = sign}
    IN  IF P = {} THEN Empty ELSE C9_Remaining[CHOOSE i \in P : \A j \in P : j <= i]

RECURSIVE JoinWords(_)
JoinWords(ws) ==
    IF ws = <<>> THEN Empty
    ELSE IF Len(ws) = 1 THEN ws[1]
    ELSE ws[1] \o <<" ">> \o JoinWords(Tail(ws))

\* re.sub(r'^\s*c\s*', ' ', s) for c = '-' or '*'
SubLeading(s, c) ==
    LET a == LStrip(s)
    IN  IF a # Empty /\ Head(a) = c THEN <<" ">> \o LStrip(Tail(a)) ELSE s

\* re.sub(r'\s*-\s*$', ' ', s)
SubTrailingDash(s) ==
    LET a == RStrip(s)
    IN  IF a # Empty /\ a[Len(a)] = "-"
        THEN RStrip(SubSeq(a, 1, Len(a) - 1)) \o <<" ">> ELSE s

\* re.sub(r'\s{2,}', ' ', s)
RECURSIVE CollapseBlanks(_)
CollapseBlanks(s) ==
    IF s = Empty THEN Empty
    ELSE LET n == BlankRun(s, 1)
         IN  IF n >= 2 THEN <<" ">> \o CollapseBlanks(SubSeq(s, n + 1, Len(s)))
             ELSE <<Head(s)>> \o CollapseBlanks(Tail(s))

\* the loop that removes duplicate words; seen holds the lower-cased words kept
RECURSIVE DropDuplicateWords(_, _)
DropDuplicateWords(words, seen) ==
    IF words = <<>> THEN <<>>
    ELSE LET w == Lower(Head(words))
         IN  IF w \notin seen \/ Len(w) <= 2
             THEN <<Head(words)>> \o DropDuplicateWords(Tail(words), seen \cup {w})
             ELSE DropDuplicateWords(Tail(words), seen)

CleanDescription(description) ==
    IF description = Empty THEN Empty
    ELSE LET joined  == JoinWords(SplitWS(description))
             denoised == CollapseBlanks(SubLeading(SubTrailingDash(SubLeading(joined, "-")), "*"))
         IN  JoinWords(DropDuplicateWords(SplitWS(Strip(denoised)), {}))

CleanReference(reference) ==
    IF reference = Empty THEN Empty
    ELSE Upper(Strip(Keep(reference, WordChars)))

(***************************************************************************)
(* TransactionProcessor._process_transaction, _is_valid_transaction,       *)
(* process and get_summary                                                 *)
(***************************************************************************)
\* "The Final Column Guard": <<final_debit, final_credit>>
ColumnGuard(raw_debit, raw_credit) ==
    LET norm_debit  == NormalizeAmount(raw_debit)
        norm_credit == NormalizeAmount(raw_credit)
    IN  IF (IsNegative(raw_credit) /\ norm_credit # Empty)
            \/ (norm_debit # Empty /\ norm_credit = Empty)
        THEN <<IF norm_debit # Empty THEN norm_debit ELSE norm_credit, Empty>>
        ELSE IF IsNegative(raw_debit) /\ norm_debit # Empty
        THEN <<norm_debit, Empty>>
        ELSE <<norm_debit, norm_credit>>

\* fuzzy is the answer of dateutil for a date that no format parses
ProcessTransaction(t, fuzzy) ==
    LET guard == ColumnGuard(t.debit, t.credit)
    IN  [date        |-> NormalizeDate(t.date, fuzzy),
         description |-> CleanDescription(t.description),
         reference   |-> CleanReference(t.reference),
         debit       |-> guard[1],
         credit      |-> guard[2],
         balance     |-> NormalizeAmount(t.balance)]

\* the validator with the date required
IsValidTransactionDated(t) ==
    LET has_date        == t.date # Empty
        has_description == t.description # Empty
        has_amount      == t.debit # Empty \/ t.credit # Empty \/ t.balance # Empty
    IN  has_date /\ (has_description \/ has_amount)

IsValidTransaction(t) ==
    LET has_date        == t.date # Empty
        has_description == t.description # Empty
        has_amount      == t.debit # Empty \/ t.credit # Empty \/ t.balance # Empty
    IN  (has_date /\ (has_description \/ has_amount)) \/ (has_description /\ has_amount)

\* process(): the loop over self.transactions
RECURSIVE Process(_, _)
Process(txs, fuzzy) ==
    IF txs = <<>> THEN <<>>
    ELSE LET processed_trans == ProcessTransaction(Head(txs), fuzzy)
         IN  (IF IsValidTransaction(processed_trans) THEN <<processed_trans>> ELSE <<>>)
             \o Process(Tail(txs), fuzzy)

\* an exact decimal: a signed numerator and a number of fraction digits
DecZero == [num |-> 0, frac |-> 0]
DecAdd(a, b) ==
    LET f == IF a.frac >= b.frac THEN a.frac ELSE b.frac
    IN  [num |-> a.num * Pow10(f - a.frac) + b.num * Pow10(f - b.frac), frac |-> f]
\* f"{total:.2f}" of an exact decimal
DecFormat(a) ==
    Format2f([ok |-> TRUE, inf |-> FALSE, neg |-> a.num < 0,
              num |-> IF a.num < 0 THEN -a.num ELSE a.num, frac |-> a.frac])

\* float(field) of a non-empty field as a decimal; 0 when the field is empty or
\* float() raises (the bare except)
FieldValue(field, absolute) ==
    LET f == PyFloat(field)
    IN  IF field = Empty \/ ~f.ok THEN DecZero
        ELSE [num |-> IF f.neg /\ ~absolute THEN -f.num ELSE f.num, frac |-> f.frac]

RECURSIVE TotalDebits(_)
TotalDebits(txs) ==
    IF txs = <<>> THEN DecZero
    ELSE DecAdd(FieldValue(Head(txs).debit, TRUE), TotalDebits(Tail(txs)))
RECURSIVE TotalCredits(_)
TotalCredits(txs) ==
    IF txs = <<>> THEN DecZero
    ELSE DecAdd(FieldValue(Head(txs).credit, FALSE), TotalCredits(Tail(txs)))

\* the dates that datetime.strptime(date_str, '%d/%m/%Y') parses
ParsedDates(txs) ==
    {dt \in {Strptime(txs[i].date, DateFormats[1]) : i \in DOMAIN txs} : dt.ok}
DateOrdinal(dt) == dt.year * 10000 + dt.month * 100 + dt.day
DateRange(txs) ==
    LET D == ParsedDates(txs)
    IN  IF D = {} THEN None
        ELSE Strftime(CHOOSE a \in D : \A b \in D : DateOrdinal(a) <= DateOrdinal(b))
             \o <<" ", "-", " ">> \o
             Strftime(CHOOSE a \in D : \A b \in D : DateOrdinal(a) >= DateOrdinal(b))

\* get_summary() over a list (the totals of the empty list are the int 0)
GetSummary(txs) ==
    IF txs = <<>>
    THEN [total_transactions |-> 0, total_debits |-> <<"0">>, total_credits |-> <<"0">>,
          date_range |-> None]
    ELSE [total_transactions |-> Len(txs),
          total_debits       |-> DecFormat(TotalDebits(txs)),
          total_credits      |-> DecFormat(TotalCredits(txs)),
          date_range         |-> DateRange(txs)]

(***************************************************************************)
(* Specification of process() and get_summary() as convert_pdf calls them: *)
(* processor = TransactionProcessor(raw_transactions);                     *)
(* transactions = processor.process(); summary = processor.get_summary()   *)
(***************************************************************************)
Txn(date, description, reference, debit, credit, balance) ==
    [date |-> date, description |-> description, reference |-> reference,
     debit |-> debit, credit |-> credit, balance |-> balance]

Date_25_06_2024 == <<"2", "5", "/", "0", "6", "/", "2", "0", "2", "4">>
Desc_Payment == <<"P", "a", "y", "m", "e", "n", "t">>
Ref_ab_1 == <<"a", "b", "-", "1">>
Amt_100p00 == <<"1", "0", "0", ".", "0", "0">>
Amt_50p00 == <<"5", "0", ".", "0", "0">>
Amt_1c00m == <<"1", ",", "0", "0", "-">>
Amt_5c00 == <<"5", ",", "0", "0">>

\* <<debit, credit, balance>> of a candidate: no amount; a positive debit and a
\* positive credit; a negative credit; a balance only; a credit with a balance
CandidateAmounts ==
    {<<Empty, Empty, Empty>>,
     <<Amt_100p00, Amt_50p00, Empty>>,
     <<Empty, Amt_1c00m, Empty>>,
     <<Empty, Empty, Amt_5c00>>,
     <<Empty, Amt_50p00, Amt_250c00>>}

Candidates ==
    {Txn(d, s, Ref_ab_1, a[1], a[2], a[3]) :
        d \in {Empty, Date_25_06_2024}, s \in {Empty, Desc_Payment}, a \in CandidateAmounts}

MaxTransactions == 2

\* the answers dateutil may give for the dates of a list that no format parses
DateutilAnswers(txs) ==
    {NoDate} \cup UNION {DateutilOutcomes(Strip(txs[i].date)) :
                            i \in {j \in DOMAIN txs : /\ Strip(txs[j].date) # Empty
                                                      /\ ~FirstFormat(Strip(txs[j].date), 1).ok}}

InitProcess ==
    /\ pc = "constructed"
    /\ transactions \in SeqsUpTo(Candidates, MaxTransactions)
    /\ processed = Empty
    /\ summary = [total_transactions |-> 0]
    /\ AmountIdle /\ DateIdle /\ FindIdle /\ ClassifyIdle /\ MergeIdle /\ TextIdle /\ ReferenceIdle /\ GutterIdle /\ CleanIdle /\ SelectIdle /\ VisualIdle /\ DescriptionIdle /\ JobsIdle

\* if not raw_transactions: return 400
NoTransactionsFound ==
    /\ pc = "constructed"
    /\ transactions = <<>>
    /\ pc' = "rejected"
    /\ UNCHANGED process_vars
    /\ UNCHANGED <<amount_vars, date_vars, find_vars, classify_vars, merge_vars, text_vars, reference_vars, gutter_vars, clean_vars, select_vars, visual_vars, description_vars, jobs_vars>>

\* transactions = processor.process(); if not transactions: return 400
ProcessAll ==
    /\ pc = "constructed"
    /\ transactions # <<>>
    /\ \E fuzzy \in DateutilAnswers(transactions) :
          /\ processed' = Process(transactions, fuzzy)
          /\ pc' = IF processed' = <<>> THEN "rejected" ELSE "processed"
    /\ UNCHANGED <<transactions, summary>>
    /\ UNCHANGED <<amount_vars, date_vars, find_vars, classify_vars, merge_vars, text_vars, reference_vars, gutter_vars, clean_vars, select_vars, visual_vars, description_vars, jobs_vars>>

\* summary = processor.get_summary(): get_summary reads self.transactions, the
\* list given to the constructor; process() has not assigned it
Summarize ==
    /\ pc = "processed"
    /\ summary' = GetSummary(transactions)
    /\ pc' = "summarized"
    /\ UNCHANGED <<transactions, processed>>
    /\ UNCHANGED <<amount_vars, date_vars, find_vars, classify_vars, merge_vars, text_vars, reference_vars, gutter_vars, clean_vars, select_vars, visual_vars, description_vars, jobs_vars>>

NextProcess == NoTransactionsFound \/ ProcessAll \/ Summarize

SpecProcess == InitProcess /\ [][NextProcess]_vars

(***************************************************************************)
(* Claims about process() and get_summary()                                *)
(***************************************************************************)
ProcessReturned == pc \in {"processed", "summarized"} \/ (pc = "rejected" /\ transactions # <<>>)

\* C1: no record returned by _process_transaction, and so no record of the list
\* returned by process(), has both 'debit' and 'credit' non-empty.
C1_MutuallyExclusive ==
    ProcessReturned =>
        \A i \in DOMAIN processed : processed[i].debit = Empty \/ processed[i].credit = Empty

\* C4: after process() returns L, get_summary() has total_transactions = len(L),
\* total_debits = the sum of abs(debit) over L and total_credits = the sum of
\* credit over L.
C4_SummaryOfAccepted ==
    pc = "summarized" =>
        /\ summary.total_transactions = Len(processed)
        /\ summary.total_debits = GetSummary(processed).total_debits
        /\ summary.total_credits = GetSummary(processed).total_credits

\* the rule of the validator
C10_Accepted(t) ==
    \/ t.date # Empty /\ (t.description # Empty
                             \/ t.debit # Empty \/ t.credit # Empty \/ t.balance # Empty)
    \/ t.description # Empty /\ (t.debit # Empty \/ t.credit # Empty \/ t.balance # Empty)
\* a record with only a reference; a record with description "Payment" and
\* credit "50.00" but no date
C10_OnlyReference == Txn(Empty, Empty, Ref_ab_1, Empty, Empty, Empty)
C10_PaymentNoDate == Txn(Empty, Desc_Payment, Ref_ab_1, Empty, Amt_50p00, Amt_250c00)
C10_Normalized == [i \in DOMAIN transactions |-> ProcessTransaction(transactions[i], NoDate)]

\* C10: process() keeps a normalized record iff (date AND (description OR any of
\* debit/credit/balance)) OR (description AND any of debit/credit/balance); a
\* record with only a reference is dropped, one with description and credit but
\* no date is kept; the kept records appear in input order.
C10_Validator ==
    ProcessReturned =>
        /\ processed = SelectSeq(C10_Normalized, C10_Accepted)
        /\ \A i \in DOMAIN processed : processed[i].description # Empty \/ processed[i].date # Empty
        /\ Len(processed) >= Cardinality({i \in DOMAIN transactions :
                                             transactions[i] = C10_PaymentNoDate})
        /\ \A i \in DOMAIN processed :
              processed[i] # ProcessTransaction(C10_OnlyReference, NoDate)

\* the list [only a reference, "Payment" with credit and no date] has been
\* processed: the first record is dropped and the second kept
C10_Witness ==
    /\ pc = "processed"
    /\ transactions = <<C10_OnlyReference, C10_PaymentNoDate>>
    /\ Len(processed) = 1
    /\ processed[1].description = Desc_Payment
    /\ processed[1].credit = Amt_50p00

(***************************************************************************)
(* PDFParser.parse_transactions, local path: the merge of the candidates   *)
(* of the visual parser and of the text parser, the sort and _clean_final  *)
(***************************************************************************)
Candidate(date, description, debit, credit, balance) ==
    [date |-> date, description |-> description,
     debit |-> debit, credit |-> credit, balance |-> balance]

\* x or y
Or(x, y) == IF x # Empty THEN x ELSE y

\* t.get('debit') or t.get('credit')
HasAmount(t) == t.debit # Empty \/ t.credit # Empty

\* f"{date}|{description.lower()}|{amt}|{bal}"
Signature(t) ==
    LET amt == Or(t.debit, Or(t.credit, <<"0">>))
        bal == Or(t.balance, <<"0">>)
    IN  t.date \o <<"|">> \o Lower(t.description) \o <<"|">> \o amt \o <<"|">> \o bal

\* the first loop without seen_visual_sigs.add(sig)
RECURSIVE MergeVisualLoopUnrecorded(_, _, _)
MergeVisualLoopUnrecorded(candidates, final, seen) ==
    IF candidates = <<>> THEN <<final, seen>>
    ELSE LET t == Head(candidates)
         IN  IF ~HasAmount(t) THEN MergeVisualLoopUnrecorded(Tail(candidates), final, seen)
             ELSE MergeVisualLoopUnrecorded(Tail(candidates), Append(final, t), seen)

\* the first loop: <<final_transactions, seen_visual_sigs>>
RECURSIVE MergeVisualLoop(_, _, _)
MergeVisualLoop(candidates, final, seen) ==
    IF candidates = <<>> THEN <<final, seen>>
    ELSE LET t == Head(candidates)
         IN  IF ~HasAmount(t) THEN MergeVisualLoop(Tail(candidates), final, seen)
             ELSE MergeVisualLoop(Tail(candidates), Append(final, t),
                                  seen \cup {Signature(t)})

\* the second loop with every text candidate appended
RECURSIVE MergeTextLoopUnchecked(_, _, _)
MergeTextLoopUnchecked(candidates, final, seen) ==
    IF candidates = <<>> THEN final
    ELSE LET t == Head(candidates)
         IN  IF ~HasAmount(t) THEN MergeTextLoopUnchecked(Tail(candidates), final, seen)
             ELSE MergeTextLoopUnchecked(Tail(candidates), Append(final, t), seen)

\* the second loop: final_transactions
RECURSIVE MergeTextLoop(_, _, _)
MergeTextLoop(candidates, final, seen) ==
    IF candidates = <<>> THEN final
    ELSE LET t == Head(candidates)
         IN  IF ~HasAmount(t) THEN MergeTextLoop(Tail(candidates), final, seen)
             ELSE IF Signature(t) \notin seen
             THEN MergeTextLoop(Tail(candidates), Append(final, t), seen)
             ELSE MergeTextLoop(Tail(candidates), final, seen)

\* the sort key: strptime(x['date'], '%d/%m/%Y') if x.get('date') else datetime.max
DatetimeMax == 100000000
SortKey(t) ==
    IF t.date = Empty THEN DatetimeMax ELSE DateOrdinal(Strptime(t.date, DateFormats[1]))
SortKeyRaises(t) == t.date # Empty /\ ~Strptime(t.date, DateFormats[1]).ok

\* an insertion that puts t before the records of the same key
RECURSIVE InsertByKeyUnstable(_, _)
InsertByKeyUnstable(sorted, t) ==
    IF sorted = <<>> THEN <<t>>
    ELSE IF SortKey(Head(sorted)) < SortKey(t)
    THEN <<Head(sorted)>> \o InsertByKeyUnstable(Tail(sorted), t)
    ELSE <<t>> \o sorted

\* list.sort is stable: t goes after the records whose key is not greater
RECURSIVE InsertByKey(_, _)
InsertByKey(sorted, t) ==
    IF sorted = <<>> THEN <<t>>
    ELSE IF SortKey(Head(sorted)) <= SortKey(t)
    THEN <<Head(sorted)>> \o InsertByKey(Tail(sorted), t)
    ELSE <<t>> \o sorted
RECURSIVE StableSort(_, _)
StableSort(sorted, rest) ==
    IF rest = <<>> THEN sorted
    ELSE StableSort(InsertByKey(sorted, Head(rest)), Tail(rest))

\* the sort without the try/except, a key that raises counting as the least
SortByDateUnguarded(list) ==
    StableSort(<<>>, list)

\* try: final_transactions.sort(key=...)  except: pass
SortByDate(list) ==
    IF \E i \in DOMAIN list : SortKeyRaises(list[i]) THEN list
    ELSE StableSort(<<>>, list)

\* k in s, for strings
ContainsStr(s, k) ==
    \E i \in 1..(Len(s) - Len(k) + 1) : SubSeq(s, i, i + Len(k) - 1) = k

Noise == {
    <<"t", "o", "t", "a", "l">>,
    <<"v", "a", "t">>,
    <<"b", "r", "a", "n", "c", "h">>,
    <<"a", "c", "c", "o", "u", "n", "t">>,
    <<"s", "t", "a", "t", "e", "m", "e", "n", "t">>,
    <<"o", "p", "e", "n", "i", "n", "g">>,
    <<"c", "l", "o", "s", "i", "n", "g">>,
    <<"p", "a", "g", "e">>,
    <<"r", "e", "g", " ", "n", "o">>,
    <<"f", "s", "p">>,
    <<"i", "n", "t", "e", "r", "e", "s", "t">>,
    <<"m", "o", "n", "t", "h", "l", "y", " ", "s", "e", "r", "v", "i", "c", "e">>,
    <<"m", "o", "n", "t", "h", "-", "e", "n", "d">>,
    <<"d", "e", "t", "a", "i", "l", "s", " ", "s", "e", "r", "v", "i", "c", "e">>,
    <<"d", "e", "b", "i", "t", "s", " ", "f", "e", "e">>,
    <<"b", "r", "o", "u", "g", "h", "t", " ", "f", "o", "r", "w", "a", "r", "d">>,
    <<"c", "a", "r", "r", "i", "e", "d", " ", "f", "o", "r", "w", "a", "r", "d">>,
    <<"p", "l", "e", "a", "s", "e", " ", "v", "i", "s", "i", "t", " ", "o", "u", "r", " ", "w", "e", "b", "s", "i", "t", "e">>,
    <<"s", "o", "u", "t", "h", " ", "a", "f", "r", "i", "c", "a", " ", "l", "i", "m", "i", "t", "e", "d">>,
    <<"r", "e", "g", "i", "s", "t", "e", "r", "e", "d", " ", "b", "a", "n", "k">>,
    <<"d", "i", "r", "e", "c", "t", "o", "r", "s", ":">>,
    <<"c", "o", "m", "p", "a", "n", "y", " ", "s", "e", "c", "r", "e", "t", "a", "r", "y">>,
    <<"a", "u", "t", "h", "o", "r", "i", "s", "e", "d", " ", "f", "i", "n", "a", "n", "c", "i", "a", "l", " ", "s", "e", "r", "v", "i", "c", "e", "s">>}
MaxDescription == 200

IsNoise(t) ==
    LET d == Strip(t.description)
    IN  \/ d = Empty
        \/ \E k \in Noise : ContainsStr(Lower(d), k)
        \/ Len(d) > MaxDescription
        \/ ContainsStr(Lower(d), <<"b", "a", "l", "a", "n", "c", "e">>) /\ ~HasAmount(t)

CleanFinal(list) == SelectSeq(list, LAMBDA t : ~IsNoise(t))

Date_24_06_2024 == <<"2", "4", "/", "0", "6", "/", "2", "0", "2", "4">>
Date_31_02_2025 == <<"3", "1", "/", "0", "2", "/", "2", "0", "2", "5">>
Desc_Coffee == <<"C", "o", "f", "f", "e", "e">>
Desc_COFFEE == <<"C", "O", "F", "F", "E", "E">>
Desc_Rent == <<"R", "e", "n", "t">>
Desc_Fee == <<"F", "e", "e">>
Desc_Tax == <<"T", "a", "x">>
Desc_Total == <<"T", "o", "t", "a", "l", " ", "f", "e", "e", "s">>
Amt_25p00 == <<"2", "5", ".", "0", "0">>
Amt_1p00 == <<"1", ".", "0", "0">>

\* a credit; the same credit with the description in another case; a debit of an
\* earlier day with a balance; a row without debit and credit; a row whose date
\* strptime rejects; a row of boilerplate without a date
Cand_Coffee == Candidate(Date_25_06_2024, Desc_Coffee, Empty, Amt_25p00, Empty)
Cand_COFFEE == Candidate(Date_25_06_2024, Desc_COFFEE, Empty, Amt_25p00, Empty)
Cand_Rent   == Candidate(Date_24_06_2024, Desc_Rent, Amt_m100p00, Empty, Amt_250c00)
Cand_Fee    == Candidate(Empty, Desc_Fee, Empty, Empty, Amt_5c00)
Cand_Tax    == Candidate(Date_31_02_2025, Desc_Tax, Empty, Amt_1p00, Empty)
Cand_Total  == Candidate(Empty, Desc_Total, Empty, Amt_1p00, Empty)
MergeCandidates == {Cand_Coffee, Cand_COFFEE, Cand_Rent, Cand_Fee, Cand_Tax, Cand_Total}

MaxCandidates == 2

\* raw_visual = self._parse_visual_greedy(); raw_text = self._parse_text_greedy();
\* final_transactions = []; seen_visual_sigs = set()
InitMerge ==
    /\ pc = "parsed"
    /\ raw_visual \in SeqsUpTo(MergeCandidates, MaxCandidates)
    /\ raw_text \in SeqsUpTo(MergeCandidates, MaxCandidates)
    /\ final_transactions = <<>>
    /\ seen_visual_sigs = {}
    /\ AmountIdle /\ DateIdle /\ FindIdle /\ ClassifyIdle /\ ProcessIdle /\ TextIdle /\ ReferenceIdle /\ GutterIdle /\ CleanIdle /\ SelectIdle /\ VisualIdle /\ DescriptionIdle /\ JobsIdle

\* for t in raw_visual: ...
MergeVisual ==
    /\ pc = "parsed"
    /\ LET merged == MergeVisualLoop(raw_visual, final_transactions, seen_visual_sigs)
       IN  final_transactions' = merged[1] /\ seen_visual_sigs' = merged[2]
    /\ pc' = "visual_merged"
    /\ UNCHANGED <<raw_visual, raw_text>>
    /\ UNCHANGED <<amount_vars, date_vars, find_vars, classify_vars, process_vars, text_vars, reference_vars, gutter_vars, clean_vars, select_vars, visual_vars, description_vars, jobs_vars>>

\* for t in raw_text: ...
MergeText ==
    /\ pc = "visual_merged"
    /\ final_transactions' = MergeTextLoop(raw_text, final_transactions, seen_visual_sigs)
    /\ pc' = "text_merged"
    /\ UNCHANGED <<raw_visual, raw_text, seen_visual_sigs>>
    /\ UNCHANGED <<amount_vars, date_vars, find_vars, classify_vars, process_vars, text_vars, reference_vars, gutter_vars, clean_vars, select_vars, visual_vars, description_vars, jobs_vars>>

\* try: final_transactions.sort(key=...)  except: pass
SortMerged ==
    /\ pc = "text_merged"
    /\ final_transactions' = SortByDate(final_transactions)
    /\ pc' = "sorted"
    /\ UNCHANGED <<raw_visual, raw_text, seen_visual_sigs>>
    /\ UNCHANGED <<amount_vars, date_vars, find_vars, classify_vars, process_vars, text_vars, reference_vars, gutter_vars, clean_vars, select_vars, visual_vars, description_vars, jobs_vars>>

\* return self._clean_final(final_transactions)
CleanMerged ==
    /\ pc = "sorted"
    /\ final_transactions' = CleanFinal(final_transactions)
    /\ pc' = "returned"
    /\ UNCHANGED <<raw_visual, raw_text, seen_visual_sigs>>
    /\ UNCHANGED <<amount_vars, date_vars, find_vars, classify_vars, process_vars, text_vars, reference_vars, gutter_vars, clean_vars, select_vars, visual_vars, description_vars, jobs_vars>>

NextMerge == MergeVisual \/ MergeText \/ SortMerged \/ CleanMerged

SpecMerge == InitMerge /\ [][NextMerge]_vars

(***************************************************************************)
(* Claims about the merge                                                  *)
(***************************************************************************)
CountSignature(list, sig) ==
    Cardinality({i \in DOMAIN list : HasAmount(list[i]) /\ Signature(list[i]) = sig})
NoDuplicateSignatures(list) ==
    \A i, j \in DOMAIN list :
        (i # j /\ HasAmount(list[i]) /\ HasAmount(list[j]))
            => Signature(list[i]) # Signature(list[j])
MergeDone == pc \in {"text_merged", "sorted", "returned"}

\* C2: for any pair of candidate lists of the visual and the text parser, the
\* list built by the merge contains no two records with the same signature
\* (date, lower-cased description, debit-or-credit, balance).
C2_NoDuplicateSignatures ==
    MergeDone => NoDuplicateSignatures(final_transactions)

\* C2, amended: the merge appends no text candidate whose signature was seen
\* from the visual pass, so the merged list holds a visual signature no more
\* often than the visual list does; it contains no two records with the same
\* signature when neither candidate list holds two amount-bearing candidates
\* with the same signature.
C2_NoCrossDuplicates ==
    MergeDone =>
        /\ \A sig \in seen_visual_sigs :
              CountSignature(final_transactions, sig) <= CountSignature(raw_visual, sig)
        /\ (NoDuplicateSignatures(raw_visual) /\ NoDuplicateSignatures(raw_text))
              => NoDuplicateSignatures(final_transactions)

\* the visual parser gave "Coffee", the text parser the same row as "COFFEE" and
\* an earlier row: the merge returned the earlier row and the visual "Coffee"
C2_Witness ==
    /\ pc = "returned"
    /\ raw_visual = <<Cand_Coffee>>
    /\ raw_text = <<Cand_COFFEE, Cand_Rent>>
    /\ final_transactions = <<Cand_Rent, Cand_Coffee>>

(***************************************************************************)
(* PDFParser._parse_text_greedy                                            *)
(***************************************************************************)
\* \d{1,2}[/-]\d{1,2}[/-]\d{2,4} matched at position i with lengths ld, lm, ly
TextFullDateAt(t, i, ld, lm, ly) ==
    /\ DigitsAt(t, i, ld)
    /\ CharAt(t, i + ld, {"/", "-"})
    /\ DigitsAt(t, i + ld + 1, lm)
    /\ CharAt(t, i + ld + 1 + lm, {"/", "-"})
    /\ DigitsAt(t, i + ld + lm + 2, ly)
TextFullDateLengths(t, i) ==
    {l \in {1, 2} \X {1, 2} \X {2, 3, 4} : TextFullDateAt(t, i, l[1], l[2], l[3])}

\* \d{1,2}\s+[A-Z][a-z]{2,3} matched at position i with lengths ld, ll
TextDayNameAt(t, i, ld, ll) ==
    LET w == BlankRun(t, i + ld)
    IN  /\ DigitsAt(t, i, ld)
        /\ w >= 1
        /\ CharAt(t, i + ld + w, UpperLetters)
        /\ \A k \in 1..ll : CharAt(t, i + ld + w + k, LowerLetters)
TextDayNameLengths(t, i) == {l \in {1, 2} \X {2, 3} : TextDayNameAt(t, i, l[1], l[2])}

\* \d{2}\s\d{2} matched at position i
TextDayMonthAt(t, i) ==
    DigitsAt(t, i, 2) /\ CharAt(t, i + 2, Whitespace) /\ DigitsAt(t, i + 3, 2)

\* the length of the match of the alternation at position i, 0 when none: the
\* first alternative that matches, each group as long as it can be
TextDateLength(t, i) ==
    IF TextFullDateLengths(t, i) # {}
    THEN LET L == TextFullDateLengths(t, i)
             l == CHOOSE a \in L : \A b \in L :
                      100 * a[1] + 10 * a[2] + a[3] >= 100 * b[1] + 10 * b[2] + b[3]
         IN  l[1] + l[2] + l[3] + 2
    ELSE IF TextDayNameLengths(t, i) # {}
    THEN LET L == TextDayNameLengths(t, i)
             l == CHOOSE a \in L : \A b \in L : 10 * a[1] + a[2] >= 10 * b[1] + b[2]
         IN  l[1] + BlankRun(t, i + l[1]) + 1 + l[2]
    ELSE IF TextDayMonthAt(t, i) THEN 5
    ELSE 0

\* date_m.group(0) of re.search, <<>> when date_m is None
SearchTextDate(t) ==
    LET i == Leftmost({j \in 1..Len(t) : TextDateLength(t, j) > 0})
    IN  IF i = 0 THEN <<>> ELSE SubSeq(t, i, i + TextDateLength(t, i) - 1)

\* (?:[,\s]\d{3})*(?:[.,]\d{2})-? matched from position j: the position after
\* the match, 0 when there is none; the repeated group is tried first
RECURSIVE AmountTail(_, _)
AmountTail(t, j) ==
    LET grouped == IF CharAt(t, j, {","} \cup Whitespace) /\ DigitsAt(t, j + 1, 3)
                   THEN AmountTail(t, j + 4) ELSE 0
    IN  IF grouped # 0 THEN grouped
        ELSE IF CharAt(t, j, {".", ","}) /\ DigitsAt(t, j + 1, 2)
        THEN (IF CharAt(t, j + 3, {"-"}) THEN j + 4 ELSE j + 3)
        ELSE 0

\* -?\d{1,3}(?:[,\s]\d{3})*(?:[.,]\d{2})-? matched at position i: the position
\* after the match, 0 when there is none
AmountAt(t, i) ==
    LET s == IF CharAt(t, i, {"-"}) THEN i + 1 ELSE i
    IN  IF DigitsAt(t, s, 3) /\ AmountTail(t, s + 3) # 0 THEN AmountTail(t, s + 3)
        ELSE IF DigitsAt(t, s, 2) /\ AmountTail(t, s + 2) # 0 THEN AmountTail(t, s + 2)
        ELSE IF DigitsAt(t, s, 1) THEN AmountTail(t, s + 1)
        ELSE 0

\* body(v) for the value v of an expression, computed once
Let(v, body(_)) == CHOOSE r \in {body(x) : x \in {v}} : TRUE

\* re.findall of the amount pattern from position i on: the leftmost match,
\* then the matches after it
RECURSIVE FindAllAmounts(_, _)
FindAllAmounts(t, i) ==
    Let(Leftmost({j \in i..Len(t) : AmountAt(t, j) # 0}), LAMBDA j :
        IF j = 0 THEN <<>>
        ELSE Let(AmountAt(t, j), LAMBDA e :
                 <<SubSeq(t, j, e - 1)>> \o FindAllAmounts(t, e)))

\* s.replace(sub, '') for a non-empty sub, from position i on: the text up to
\* the leftmost occurrence, then the same after the occurrence
RECURSIVE RemoveFrom(_, _, _)
RemoveFrom(s, sub, i) ==
    Let(Leftmost({j \in i..(Len(s) - Len(sub) + 1) : SubSeq(s, j, j + Len(sub) - 1) = sub}),
        LAMBDA j : IF j = 0 THEN SubSeq(s, i, Len(s))
                   ELSE SubSeq(s, i, j - 1) \o RemoveFrom(s, sub, j + Len(sub)))
RemoveStr(s, sub) == RemoveFrom(s, sub, 1)

\* for a in amts: desc = desc.replace(a, '')
RECURSIVE RemoveAll(_, _)
RemoveAll(s, subs) ==
    IF subs = <<>> THEN s
    ELSE Let(RemoveStr(s, Head(subs)), LAMBDA rest : RemoveAll(rest, Tail(subs)))

\* the body of the loop for one line: <<last_date, transactions>>
TextRowOf(line, date_m, amts, last, rows, year) ==
    Let(IF date_m # <<>> THEN FindDate(date_m, year) ELSE None, LAMBDA pd :
    Let(IF pd # None THEN pd ELSE last, LAMBDA last1 :
    Let(ClassifyAmounts(amts), LAMBDA cls :
    Let(IF date_m # <<>> THEN RemoveStr(line, date_m) ELSE line, LAMBDA undated :
    Let(RemoveAll(undated, amts), LAMBDA desc :
        IF amts # <<>>
        THEN <<last1, Append(rows, Candidate(IF last1 # None THEN last1 ELSE Empty,
                                             Strip(JoinWords(SplitWS(desc))),
                                             cls[1], cls[2], cls[3]))>>
        ELSE <<last1, rows>>)))))
\* the row built with the date of the line alone, the carried date forgotten
TextRowUncarried(raw_line, last, rows, year) ==
    Let(Strip(raw_line), LAMBDA line :
        IF line = Empty THEN <<last, rows>>
        ELSE TextRowOf(line, SearchTextDate(line), FindAllAmounts(line, 1), None, rows, year))

TextRow(raw_line, last, rows, year) ==
    Let(Strip(raw_line), LAMBDA line :
        IF line = Empty THEN <<last, rows>>
        ELSE Let(SearchTextDate(line), LAMBDA date_m :
             Let(FindAllAmounts(line, 1), LAMBDA amts :
                 TextRowOf(line, date_m, amts, last, rows, year))))

\* the loop over the lines
RECURSIVE ParseTextGreedy(_, _, _, _)
ParseTextGreedy(ls, last, rows, year) ==
    IF ls = <<>> THEN <<last, rows>>
    ELSE Let(TextRow(Head(ls), last, rows, year), LAMBDA r :
             ParseTextGreedy(Tail(ls), r[1], r[2], year))

(***************************************************************************)
(* Specification of _parse_text_greedy                                     *)
(***************************************************************************)
Line_Scenario == <<"2", "5", "/", "0", "6", "/", "2", "0", "2", "4", " ", "P", "a", "y", "m", "e", "n", "t", " ", "t", "o", " ", "X", "Y", "Z", " ", "1", " ", "2", "0", "0", ",", "0", "0", " ", "2", "5", "0", ",", "0", "0">>
Line_NoDate == <<"C", "o", "f", "f", "e", "e", " ", "2", "5", ",", "0", "0", "-">>
Line_DayMonth == <<"2", "5", " ", "0", "6", " ", "C", "o", "f", "f", "e", "e", " ", "1", ",", "0", "0", "-">>
Line_DayName == <<"5", " ", "J", "u", "n", " ", "P", "a", "y", " ", "1", ".", "0", "0">>
Line_Thousands == <<"P", "a", "y", " ", "1", "2", " ", "3", "4", "5", ",", "6", "7">>
Line_Blank == <<" ">>
Line_NoAmount == <<"S", "t", "a", "t", "e", "m", "e", "n", "t", " ", "p", "a", "g", "e", " ", "1">>
Line_BadDay == <<"4", "2", " ", "J", "u", "n", " ", "F", "e", "e", " ", "2", ".", "0", "0">>
Line_Brackets == <<" ", "2", "4", "/", "0", "6", "/", "2", "0", "2", "4", " ", "R", "e", "n", "t", " ", "(", "1", "0", "0", ".", "0", "0", ")", " ", "2", "5", "0", ",", "0", "0", " ">>
Line_ShortYear == <<"1", "-", "2", "-", "2", "4", " ", "x", " ", "1", ",", "2", "3", "4">>
Line_DateOnly == <<"2", "6", "/", "0", "6", "/", "2", "0", "2", "4", " ", "O", "p", "e", "n", "i", "n", "g">>
TextLines ==
    {Line_DateOnly, Line_Scenario, Line_NoDate, Line_DayMonth, Line_DayName, Line_Thousands, Line_Blank,
     Line_NoAmount, Line_BadDay, Line_Brackets, Line_ShortYear}

MaxLines == 2

InitText ==
    /\ pc = "text"
    /\ lines \in SeqsUpTo(TextLines, MaxLines)
    /\ doc_year \in FindYearDefaults
    /\ last_date = None
    /\ text_rows = <<>>
    /\ AmountIdle /\ DateIdle /\ FindIdle /\ ClassifyIdle /\ ProcessIdle /\ MergeIdle /\ ReferenceIdle /\ GutterIdle /\ CleanIdle /\ SelectIdle /\ VisualIdle /\ DescriptionIdle /\ JobsIdle

ParseText ==
    /\ pc = "text"
    /\ LET r == ParseTextGreedy(lines, last_date, text_rows, doc_year)
       IN  last_date' = r[1] /\ text_rows' = r[2]
    /\ pc' = "text_parsed"
    /\ UNCHANGED <<lines, doc_year>>
    /\ UNCHANGED <<amount_vars, date_vars, find_vars, classify_vars, process_vars, merge_vars, reference_vars, gutter_vars, clean_vars, select_vars, visual_vars, description_vars, jobs_vars>>

NextText == ParseText

SpecText == InitText /\ [][NextText]_vars

(***************************************************************************)
(* Claims about the text row parser                                        *)
(***************************************************************************)
\* transaction.get('reference', '') of a candidate of the parsers
AsTransaction(c) == Txn(c.date, c.description, Empty, c.debit, c.credit, c.balance)

Desc_Payment_to_XYZ == <<"P", "a", "y", "m", "e", "n", "t", " ", "t", "o", " ", "X", "Y", "Z">>
Desc_Payment_To_XYZ == <<"P", "a", "y", "m", "e", "n", "t", " ", "T", "o", " ", "X", "Y", "Z">>
Amt_250p00 == <<"2", "5", "0", ".", "0", "0">>
C11_Candidate ==
    Candidate(Date_25_06_2024, Desc_Payment_to_XYZ, Empty, Amt_1_200c00, Amt_250c00)
C11_Normalized ==
    Candidate(Date_25_06_2024, Desc_Payment_To_XYZ, Empty, Amt_1200p00, Amt_250p00)

\* C11: the line "25/06/2024 Payment to XYZ 1 200,00 250,00" yields the
\* candidate {date "25/06/2024", description "Payment to XYZ", credit
\* "1 200,00", balance "250,00"} from the text row parser, and normalizing it
\* yields {date "25/06/2024", description "Payment To XYZ", debit "", credit
\* "1200.00", balance "250.00"}.
C11_EndToEnd ==
    (pc = "text_parsed" /\ lines = <<Line_Scenario>>) =>
        /\ text_rows = <<C11_Candidate>>
        /\ LET n == ProcessTransaction(AsTransaction(text_rows[1]), NoDate)
           IN  Candidate(n.date, n.description, n.debit, n.credit, n.balance) = C11_Normalized

\* the candidates of a list that carry a debit or a credit
WithAmount(list) == SelectSeq(list, HasAmount)
SignaturesOf(list) == {Signature(list[i]) : i \in DOMAIN list}
WithSignature(list, sig) == SelectSeq(list, LAMBDA t : Signature(t) = sig)
\* the text candidates the merge appends: those with a debit or a credit whose
\* signature is the signature of no kept visual candidate
C12_Appended ==
    SelectSeq(raw_text,
              LAMBDA t : HasAmount(t) /\ Signature(t) \notin SignaturesOf(WithAmount(raw_visual)))

\* C12: every visual candidate with a debit or a credit is kept; a text
\* candidate with a debit or a credit is appended iff its signature is the
\* signature of no kept visual candidate; candidates with neither are dropped
\* from both lists; when both parsers yield a record with signature S, exactly
\* one record with S (the visual one) is in the output.
C12_ExactlyOne ==
    pc = "text_merged" =>
        /\ final_transactions = WithAmount(raw_visual) \o C12_Appended
        /\ \A sig \in SignaturesOf(WithAmount(raw_visual)) \cap SignaturesOf(WithAmount(raw_text)) :
              /\ CountSignature(final_transactions, sig) = 1
              /\ WithSignature(final_transactions, sig) = WithSignature(WithAmount(raw_visual), sig)

\* C12, amended: the merged list is the visual candidates with a debit or a
\* credit followed by the text candidates with a debit or a credit whose
\* signature no kept visual candidate has; when both parsers yield a record
\* with signature S, the records with S in the output are exactly the visual
\* ones, one record when the visual parser yielded one.
C12_VisualWins ==
    pc = "text_merged" =>
        /\ final_transactions = WithAmount(raw_visual) \o C12_Appended
        /\ \A sig \in SignaturesOf(WithAmount(raw_visual)) \cap SignaturesOf(WithAmount(raw_text)) :
              /\ WithSignature(final_transactions, sig) = WithSignature(WithAmount(raw_visual), sig)
              /\ CountSignature(raw_visual, sig) = 1 => CountSignature(final_transactions, sig) = 1

\* the visual parser gave "Coffee" and a row without amounts, the text parser
\* the same row as "COFFEE" and another row: the visual "Coffee" and the other
\* row are merged
C12_Witness ==
    /\ pc = "text_merged"
    /\ raw_visual = <<Cand_Coffee, Cand_Fee>>
    /\ raw_text = <<Cand_COFFEE, Cand_Rent>>
    /\ final_transactions = <<Cand_Coffee, Cand_Rent>>

\* the key the claim sorts by: the parsed date, and the greatest key for a
\* date that is empty or cannot be parsed
C13_ParsedKey(t) ==
    IF Strptime(t.date, DateFormats[1]).ok
    THEN DateOrdinal(Strptime(t.date, DateFormats[1])) ELSE DatetimeMax
\* after is before in ascending order of the keys (a function of the records),
\* records of equal keys in their order of before
C13_StablySorted(before, after, key) ==
    /\ Len(after) = Len(before)
    /\ \A i, j \in DOMAIN after : i < j => key[after[i]] <= key[after[j]]
    /\ \A i \in DOMAIN before :
          SelectSeq(after, LAMBDA t : key[t] = key[before[i]])
              = SelectSeq(before, LAMBDA t : key[t] = key[before[i]])
C13_Keys == [t \in MergeCandidates |-> C13_ParsedKey(t)]

\* C13: after the sort step the records whose date parses as DD/MM/YYYY are in
\* ascending date order, every record whose date is empty or cannot be parsed
\* comes after all dated records, and records with equal keys (the unparseable
\* ones included) keep their pre-sort relative order.
C13_SortedStable ==
    [][pc = "text_merged" => C13_StablySorted(final_transactions, final_transactions', C13_Keys)]_vars

\* C13, amended: when every non-empty date of the merged list parses as
\* DD/MM/YYYY, after the sort step the dated records are in ascending date
\* order, every record with an empty date comes after all dated records, and
\* records with equal keys keep their pre-sort relative order; when some
\* non-empty date does not parse, the list is left in its pre-sort order.
C13_SortedUnlessMalformed ==
    [][pc = "text_merged" =>
          IF \E i \in DOMAIN final_transactions :
                /\ final_transactions[i].date # Empty
                /\ ~Strptime(final_transactions[i].date, DateFormats[1]).ok
          THEN final_transactions' = final_transactions
          ELSE C13_StablySorted(final_transactions, final_transactions', C13_Keys)]_vars

\* a row without a date and "Coffee" from the visual parser and an earlier row
\* from the text parser have been sorted: the earlier row, "Coffee", then the
\* row without a date
C13_Witness ==
    /\ pc = "sorted"
    /\ raw_visual = <<Cand_Total, Cand_Coffee>>
    /\ raw_text = <<Cand_Rent>>
    /\ final_transactions = <<Cand_Rent, Cand_Coffee, Cand_Total>>

\* computing the sort key fails for some record of the list
C14_KeyFails(list) ==
    \E i \in DOMAIN list :
        list[i].date # Empty /\ ~Strptime(list[i].date, DateFormats[1]).ok

\* C14: if computing a sort key fails for any record (a malformed date),
\* parse_transactions does not raise: the merged list keeps exactly its
\* pre-sort order and content and is passed on to the noise filter.
C14_SortFailureContained ==
    [][/\ (pc = "text_merged" /\ C14_KeyFails(final_transactions))
            => (pc' = "sorted" /\ final_transactions' = final_transactions)
       /\ (pc = "sorted" /\ C14_KeyFails(final_transactions))
            => (pc' = "returned" /\ final_transactions' = CleanFinal(final_transactions))]_vars

\* a later row with a malformed date before an earlier row: the sort step left
\* the two in place
C14_Witness ==
    /\ pc = "sorted"
    /\ raw_visual = <<Cand_Tax>>
    /\ raw_text = <<Cand_Rent, Cand_Total>>
    /\ final_transactions = <<Cand_Tax, Cand_Rent, Cand_Total>>

(***************************************************************************)
(* Claims about the canonical forms of amounts and references              *)
(***************************************************************************)
\* an optional '-', at least one integer digit, a period and two fraction digits
IsCanonicalAmount(s) ==
    LET m == IF s # Empty /\ Head(s) = "-" THEN Tail(s) ELSE s
    IN  /\ Len(m) >= 4
        /\ m[Len(m) - 2] = "."
        /\ \A i \in DOMAIN m : i # Len(m) - 2 => m[i] \in Digits

\* C15: for every input string _normalize_amount returns the empty string or a
\* base-10 string with an optional leading '-', at least one integer digit and
\* exactly two fraction digits.
C15_CanonicalAmount ==
    pc \in {"amount_normalized", "amount_renormalized"} =>
        norm_amount = Empty \/ IsCanonicalAmount(norm_amount)

(***************************************************************************)
(* Specification of _clean_reference                                       *)
(***************************************************************************)
MaxReferenceLen == 3
ReferenceAlphabet == {"a", "B", "1", "_", "-", " ", "/"}

InitReference ==
    /\ pc = "reference"
    /\ reference_str \in StringsUpTo(ReferenceAlphabet, MaxReferenceLen)
    /\ cleaned_reference = Empty
    /\ AmountIdle /\ DateIdle /\ FindIdle /\ ClassifyIdle /\ ProcessIdle /\ MergeIdle /\ TextIdle /\ GutterIdle /\ CleanIdle /\ SelectIdle /\ VisualIdle /\ DescriptionIdle /\ JobsIdle

CleanReferenceStep ==
    /\ pc = "reference"
    /\ cleaned_reference' = CleanReference(reference_str)
    /\ pc' = "reference_cleaned"
    /\ UNCHANGED reference_str
    /\ UNCHANGED <<amount_vars, date_vars, find_vars, classify_vars, process_vars, merge_vars, text_vars, gutter_vars, clean_vars, select_vars, visual_vars, description_vars, jobs_vars>>

NextReference == CleanReferenceStep

SpecReference == InitReference /\ [][NextReference]_vars

\* C16: _clean_reference returns the input with all non-alphanumeric characters
\* removed and the rest upper-cased, so a reference is empty or consists only
\* of upper-case letters and digits.
C16_CanonicalReference ==
    pc = "reference_cleaned" =>
        /\ cleaned_reference = Upper(Keep(reference_str, Letters \cup Digits))
        /\ \A i \in DOMAIN cleaned_reference :
              cleaned_reference[i] \in UpperLetters \cup Digits

(***************************************************************************)
(* PDFParser._detect_column_map                                            *)
(***************************************************************************)
\* header_roles
HeaderRoles ==
    [date |-> {<<"d", "a", "t", "e">>},
     desc |-> {<<"d", "e", "t", "a", "i", "l", "s">>, <<"d", "e", "s", "c", "r", "i", "p", "t", "i", "o", "n">>, <<"t", "r", "a", "n", "s", "a", "c", "t", "i", "o", "n">>},
     amt  |-> {<<"d", "e", "b", "i", "t">>, <<"a", "m", "o", "u", "n", "t">>, <<"p", "a", "y", "m", "e", "n", "t">>, <<"b", "a", "l", "a", "n", "c", "e">>}]
\* the gutters before any header is looked at
DefaultGutters ==
    [date |-> [x0 |-> 0, x1 |-> 50],
     desc |-> [x0 |-> 60, x1 |-> 300],
     amt  |-> [x0 |-> 310, x1 |-> 1000]]

\* the roles of a word: any(kw in t for kw in kws), t the lower-cased text
RolesOf(w) ==
    {r \in {"date", "desc", "amt"} : \E kw \in HeaderRoles[r] : ContainsStr(Lower(w.text), kw)}
\* found, as the set of its entries
Found(ws) ==
    {[role |-> r, x0 |-> ws[i].x0, x1 |-> ws[i].x1] :
        <<i, r>> \in {p \in (DOMAIN ws) \X {"date", "desc", "amt"} : p[2] \in RolesOf(ws[p[1]])}}
Min(S) == CHOOSE a \in S : \A b \in S : a <= b
Max(S) == CHOOSE a \in S : \A b \in S : a >= b

\* gutters[role] after the loop over the roles
HeaderBand(found, role) ==
    LET rh == {h \in found : h.role = role}
    IN  IF rh = {} THEN DefaultGutters[role]
        ELSE [x0 |-> Min({h.x0 : h \in rh}), x1 |-> Max({h.x1 : h \in rh})]

\* gutters['desc']['x1'] = min([...] or [page.width * 0.75]) - 5
Clamped(found, desc_x1, width) ==
    LET right == {h.x0 : h \in {g \in found : g.x0 > desc_x1}}
    IN  (IF right # {} THEN Min(right) ELSE (width * 3) \div 4) - 5

DetectColumnMap(ws, width) ==
    LET found == Found(ws)
        bands == [r \in {"date", "desc", "amt"} |-> HeaderBand(found, r)]
    IN  IF found = {} THEN DefaultGutters
        ELSE [bands EXCEPT !.desc.x1 = Clamped(found, bands.desc.x1, width)]

(***************************************************************************)
(* Specification of _detect_column_map                                     *)
(***************************************************************************)
Word_Date == <<"D", "a", "t", "e">>
Word_Description == <<"D", "e", "s", "c", "r", "i", "p", "t", "i", "o", "n">>
Word_Debit == <<"D", "e", "b", "i", "t">>
Word_Balance == <<"B", "a", "l", "a", "n", "c", "e">>
Word_Ref == <<"R", "e", "f">>
Word(t, x0, x1) == [text |-> t, x0 |-> x0, x1 |-> x1]
WordTexts == {Word_Date, Word_Description, Word_Debit, Word_Balance, Word_Ref}
WordLefts == {0, 100, 200, 400}
\* widths of pages, multiples of 4
PageWidths == {600}
PageWords == {Word(t, x, x + 40) : t \in WordTexts, x \in WordLefts}

MaxWords == 2

InitGutter ==
    /\ pc = "page"
    /\ page_words \in SeqsUpTo(PageWords, MaxWords)
    /\ page_width \in PageWidths
    /\ col_map = <<>>
    /\ AmountIdle /\ DateIdle /\ FindIdle /\ ClassifyIdle /\ ProcessIdle /\ MergeIdle /\ TextIdle /\ ReferenceIdle /\ CleanIdle /\ SelectIdle /\ VisualIdle /\ DescriptionIdle /\ JobsIdle

DetectColumnMapStep ==
    /\ pc = "page"
    /\ col_map' = DetectColumnMap(page_words, page_width)
    /\ pc' = "mapped"
    /\ UNCHANGED <<page_words, page_width>>
    /\ UNCHANGED <<amount_vars, date_vars, find_vars, classify_vars, process_vars, merge_vars, text_vars, reference_vars, clean_vars, select_vars, visual_vars, description_vars, jobs_vars>>

NextGutter == DetectColumnMapStep

SpecGutter == InitGutter /\ [][NextGutter]_vars

(***************************************************************************)
(* Claims about the column map                                             *)
(***************************************************************************)
\* two x-bands share no point
Apart(a, b) == a.x1 < b.x0 \/ b.x1 < a.x0

\* C17: for every first-page word list the column map has pairwise
\* non-overlapping x-bands for date, desc and amt, desc.x1 being 5 units left
\* of the nearest header that starts right of the description headers, or of
\* 75% of the page width when there is none.
C17_NonOverlap ==
    pc = "mapped" =>
        /\ Apart(col_map.date, col_map.desc)
        /\ Apart(col_map.desc, col_map.amt)
        /\ Apart(col_map.date, col_map.amt)

(***************************************************************************)
(* Specification of _clean_final                                           *)
(***************************************************************************)
Desc_Balance == <<"B", "A", "L", "A", "N", "C", "E", " ", "b", "/", "f">>
Desc_VAT == <<"V", "A", "T", " ", "o", "n", " ", "f", "e", "e", "s">>
Desc_Blank == <<" ">>
\* descriptions around the length limit; the second is what the visual parser
\* builds when a continuation line follows a row with no description
Desc_Long == [i \in 1..MaxDescription |-> "x"]
Desc_SpaceLong == <<" ">> \o Desc_Long
Desc_TooLong == Desc_Long \o <<"x">>

CleanDescriptions ==
    {Desc_Coffee, Desc_VAT, Desc_Balance, Desc_Blank, Desc_Long, Desc_SpaceLong, Desc_TooLong}
CleanAmounts == {<<Empty, Empty>>, <<Amt_25p00, Empty>>, <<Empty, Amt_1p00>>}
CleanCandidates ==
    {Candidate(Date_24_06_2024, d, a[1], a[2], Empty) : d \in CleanDescriptions, a \in CleanAmounts}

MaxCleaned == 2

InitClean ==
    /\ pc = "merged"
    /\ clean_input \in SeqsUpTo(CleanCandidates, MaxCleaned)
    /\ cleaned_transactions = <<>>
    /\ AmountIdle /\ DateIdle /\ FindIdle /\ ClassifyIdle /\ ProcessIdle /\ MergeIdle /\ TextIdle /\ ReferenceIdle /\ GutterIdle /\ SelectIdle /\ VisualIdle /\ DescriptionIdle /\ JobsIdle

CleanFinalStep ==
    /\ pc = "merged"
    /\ cleaned_transactions' = CleanFinal(clean_input)
    /\ pc' = "cleaned"
    /\ UNCHANGED clean_input
    /\ UNCHANGED <<amount_vars, date_vars, find_vars, classify_vars, process_vars, merge_vars, text_vars, reference_vars, gutter_vars, select_vars, visual_vars, description_vars, jobs_vars>>

NextClean == CleanFinalStep

SpecClean == InitClean /\ [][NextClean]_vars

(***************************************************************************)
(* Claims about the noise filter                                           *)
(***************************************************************************)
\* the three conditions under which a record is dropped, read on the
\* description as it stands in the record
C18_Violates(t) ==
    \/ \E k \in Noise : ContainsStr(Lower(t.description), k)
    \/ Len(t.description) > MaxDescription
    \/ ContainsStr(Lower(t.description), <<"b", "a", "l", "a", "n", "c", "e">>) /\ ~HasAmount(t)

\* C18: no record returned by _clean_final has a description that contains a
\* noise keyword (case-insensitive), is longer than 200 characters, or
\* contains "balance" while debit and credit are both empty; every input record
\* violating none of these and with a non-empty description is kept, in
\* input order and unmodified.
C18_NoiseFilter ==
    pc = "cleaned" =>
        /\ \A i \in DOMAIN cleaned_transactions : ~C18_Violates(cleaned_transactions[i])
        /\ cleaned_transactions =
               SelectSeq(clean_input, LAMBDA t : t.description # Empty /\ ~C18_Violates(t))

\* the first half of C18 alone
C18_NoNoiseReturned ==
    pc = "cleaned" => \A i \in DOMAIN cleaned_transactions : ~C18_Violates(cleaned_transactions[i])
\* the second half of C18 alone
C18_OthersKept ==
    pc = "cleaned" =>
        \A i \in DOMAIN clean_input :
            (clean_input[i].description # Empty /\ ~C18_Violates(clean_input[i]))
                => \E j \in DOMAIN cleaned_transactions : cleaned_transactions[j] = clean_input[i]

(***************************************************************************)
(* PDFParser.parse_transactions: the choice of the producer                *)
(***************************************************************************)
PlaceholderEndpoint == "YOUR_AZURE_ENDPOINT_HERE"
PlaceholderKey == "YOUR_AZURE_KEY_HERE"
\* os.getenv("AZURE_ENDPOINT", ...) and os.getenv("AZURE_KEY", "") without the variables set
DefaultEndpoint == "https://bankstatementconverter.cognitiveservices.azure.com/"
DefaultKey == ""

\* the guard with the placeholders ignored
AzureAttemptedAlways(endpoint, key) == TRUE

\* if self.AZURE_ENDPOINT != "YOUR_AZURE_ENDPOINT_HERE" and self.AZURE_KEY != "YOUR_AZURE_KEY_HERE"
AzureAttempted(endpoint, key) == endpoint # PlaceholderEndpoint /\ key # PlaceholderKey

\* the merge, the sort and the noise filter of the local path
LocalResult(visual, text_out) ==
    LET merged == MergeVisualLoop(visual, <<>>, {})
    IN  CleanFinal(SortByDate(MergeTextLoop(text_out, merged[1], merged[2])))

\* the steps of the local path, in the order of the code
LocalCalls(extracted) ==
    (IF extracted THEN <<>> ELSE <<"extract_text">>)
        \o <<"_infer_year", "_parse_visual_greedy", "_parse_text_greedy",
             "merge", "sort", "_clean_final">>

(***************************************************************************)
(* Specification of the choice of the producer                             *)
(***************************************************************************)
AzureItems == {AsTransaction(Cand_Coffee), AsTransaction(Cand_Rent)}
MaxItems == 1
\* _parse_with_azure raises an Exception or returns a list
AzureOutcomes ==
    {[raises |-> TRUE, result |-> <<>>]}
        \cup {[raises |-> FALSE, result |-> r] : r \in SeqsUpTo(AzureItems, MaxItems)}
SelectCandidates == {Cand_Coffee, Cand_COFFEE, Cand_Total}
MaxParsed == 1

InitSelect ==
    /\ pc = "called"
    /\ azure_endpoint \in {PlaceholderEndpoint, DefaultEndpoint}
    /\ azure_key \in {PlaceholderKey, DefaultKey}
    /\ azure_outcome \in AzureOutcomes
    /\ has_text \in BOOLEAN
    /\ parser_out \in [visual : SeqsUpTo(SelectCandidates, MaxParsed),
                       text : SeqsUpTo(SelectCandidates, MaxParsed)]
    /\ calls = <<>>
    /\ parsed_transactions = <<>>
    /\ AmountIdle /\ DateIdle /\ FindIdle /\ ClassifyIdle /\ ProcessIdle /\ MergeIdle /\ TextIdle /\ ReferenceIdle /\ GutterIdle /\ CleanIdle /\ VisualIdle /\ DescriptionIdle /\ JobsIdle

\* return self._parse_with_azure()
AzureReturns ==
    /\ pc = "called"
    /\ AzureAttempted(azure_endpoint, azure_key)
    /\ ~azure_outcome.raises
    /\ calls' = Append(calls, "_parse_with_azure")
    /\ parsed_transactions' = azure_outcome.result
    /\ pc' = "returned"
    /\ UNCHANGED <<azure_endpoint, azure_key, azure_outcome, has_text, parser_out>>
    /\ UNCHANGED <<amount_vars, date_vars, find_vars, classify_vars, process_vars, merge_vars, text_vars, reference_vars, gutter_vars, clean_vars, visual_vars, description_vars, jobs_vars>>

\* except Exception as e: print(...)
AzureRaises ==
    /\ pc = "called"
    /\ AzureAttempted(azure_endpoint, azure_key)
    /\ azure_outcome.raises
    /\ calls' = Append(calls, "_parse_with_azure")
    /\ pc' = "local"
    /\ UNCHANGED <<azure_endpoint, azure_key, azure_outcome, has_text, parser_out, parsed_transactions>>
    /\ UNCHANGED <<amount_vars, date_vars, find_vars, classify_vars, process_vars, merge_vars, text_vars, reference_vars, gutter_vars, clean_vars, visual_vars, description_vars, jobs_vars>>

\* the guard of line 33 is false
AzureSkipped ==
    /\ pc = "called"
    /\ ~AzureAttempted(azure_endpoint, azure_key)
    /\ pc' = "local"
    /\ UNCHANGED <<azure_endpoint, azure_key, azure_outcome, has_text, parser_out, calls, parsed_transactions>>
    /\ UNCHANGED <<amount_vars, date_vars, find_vars, classify_vars, process_vars, merge_vars, text_vars, reference_vars, gutter_vars, clean_vars, visual_vars, description_vars, jobs_vars>>

\* 2. Local Fallback
LocalPath ==
    /\ pc = "local"
    /\ calls' = calls \o LocalCalls(has_text)
    /\ has_text' = TRUE
    /\ parsed_transactions' = LocalResult(parser_out.visual, parser_out.text)
    /\ pc' = "returned"
    /\ UNCHANGED <<azure_endpoint, azure_key, azure_outcome, parser_out>>
    /\ UNCHANGED <<amount_vars, date_vars, find_vars, classify_vars, process_vars, merge_vars, text_vars, reference_vars, gutter_vars, clean_vars, visual_vars, description_vars, jobs_vars>>

NextSelect == AzureReturns \/ AzureRaises \/ AzureSkipped \/ LocalPath

SpecSelect == InitSelect /\ [][NextSelect]_vars

(***************************************************************************)
(* Claims about the choice of the producer                                 *)
(***************************************************************************)
\* the external producer was the first step run
C19_AzureFirst == calls # <<>> /\ calls[1] = "_parse_with_azure"
\* the steps of the local path that were run
C19_LocalSteps == SelectSeq(calls, LAMBDA c : c # "_parse_with_azure")
\* what the local path returns, whatever the configuration
C19_Local ==
    /\ parsed_transactions = LocalResult(parser_out.visual, parser_out.text)
    /\ C19_LocalSteps \in {LocalCalls(TRUE), LocalCalls(FALSE)}
\* what is returned once the producer has been attempted
C19_AfterAttempt ==
    /\ C19_AzureFirst
    /\ ~azure_outcome.raises =>
           (calls = <<"_parse_with_azure">> /\ parsed_transactions = azure_outcome.result)
    /\ azure_outcome.raises => C19_Local

\* C19 as stated: the external producer is attempted first; if it returns,
\* even an empty list, its result is returned directly and no step of the
\* local path runs; if it raises, parse_transactions still returns, and
\* returns exactly the result of the local path.
C19_ProducerSelection == pc = "returned" => C19_AfterAttempt

\* C19, amended: the external producer is attempted first unless the endpoint
\* or the key is its placeholder; when attempted, a returned list (even an
\* empty one) is returned directly with no step of the local path run, and an
\* exception leads to exactly the result of the local path; when not
\* attempted, the local path alone runs.
C19_ProducerSelectionWhenConfigured ==
    pc = "returned" =>
        IF azure_endpoint # PlaceholderEndpoint /\ azure_key # PlaceholderKey
        THEN C19_AfterAttempt
        ELSE C19_Local /\ calls = C19_LocalSteps

\* the producer returned an empty list, which was returned, while the local
\* path would have found a transaction
C19_Witness ==
    /\ pc = "returned"
    /\ calls = <<"_parse_with_azure">>
    /\ azure_outcome.result = <<>>
    /\ parsed_transactions = <<>>
    /\ LocalResult(parser_out.visual, parser_out.text) # <<>>
\* the producer raised and the local path returned a transaction
C19_WitnessFallback ==
    /\ pc = "returned"
    /\ azure_outcome.raises
    /\ C19_AzureFirst
    /\ parsed_transactions # <<>>

(***************************************************************************)
(* Claims about the order of the rules of _find_date                       *)
(***************************************************************************)
\* the day and the month of a numeric match lie in 1..31 and 1..12
C20_InBounds(m) == m # <<>> /\ DigitsToNat(m[1]) \in 1..31 /\ DigitsToNat(m[2]) \in 1..12
\* DD/MM/ followed by a year
C20_DayMonth(d, m) == ZFill(d, 2) \o Slash \o ZFill(m, 2) \o Slash

\* the first rule, in the order full numeric, numeric without year, day and
\* month abbreviation, that matches with valid bounds gives the result; a
\* two-digit year gets the prefix "20"; the default year stands only in the
\* results of the two rules without a year
C20_Priority ==
    (pc = "found" /\ text # Empty) =>
        LET t    == Strip(text)
            full == SearchFullDate(t)
            dm   == SearchDayMonth(t)
            dn   == SearchDayName(t)
            named == dn # <<>> /\ MonthField(dn[2], "b") > 0
        IN  IF C20_InBounds(full)
            THEN found_date = C20_DayMonth(full[1], full[2])
                                  \o (IF Len(full[3]) = 2 THEN <<"2", "0">> \o full[3] ELSE full[3])
            ELSE IF C20_InBounds(dm)
            THEN found_date = C20_DayMonth(NatToDigits(DigitsToNat(dm[1])), NatToDigits(DigitsToNat(dm[2])))
                                  \o NatToDigits(default_year)
            ELSE IF named
            THEN found_date = C20_DayMonth(dn[1], NatToDigits(MonthField(dn[2], "b")))
                                  \o NatToDigits(default_year)
            ELSE found_date = None

\* C20: _find_date tries full numeric D/M/Y, then numeric D/M without year,
\* then day + month abbreviation, and returns the result of the first rule
\* that matches with valid bounds; a two-digit year is expanded by prefixing
\* "20"; the default year is used only when the matching rule has no year;
\* every result other than None has the form DD/MM/YYYY.
C20_DatePriority ==
    /\ C20_Priority
    /\ pc = "found" => (found_date = None \/ IsCanonicalDate(found_date))

(***************************************************************************)
(* PDFParser._parse_visual_greedy                                          *)
(***************************************************************************)
\* sorted(ws, key=lambda x: x[f]), which is stable
RECURSIVE InsertByField(_, _, _)
InsertByField(sorted, w, f) ==
    IF sorted = <<>> THEN <<w>>
    ELSE IF Head(sorted)[f] <= w[f]
    THEN <<Head(sorted)>> \o InsertByField(Tail(sorted), w, f)
    ELSE <<w>> \o sorted
RECURSIVE SortByField(_, _, _)
SortByField(sorted, rest, f) ==
    IF rest = <<>> THEN sorted
    ELSE SortByField(InsertByField(sorted, Head(rest), f), Tail(rest), f)

\* abs(sorted_words[i]['top'] - curr[-1]['top']) <= 3
TopTolerance == 3
\* gutter['x0'] - 5 <= w['x0'] <= gutter['x1'] + 5
GutterTolerance == 5
\* len(content) > 2
MinContinuation == 2

\* the loop that cuts sorted_words into lines
RECURSIVE GroupLoop(_, _, _)
GroupLoop(rest, curr, grouped) ==
    IF rest = <<>> THEN Append(grouped, curr)
    ELSE LET d == Head(rest).top - curr[Len(curr)].top
         IN  IF (IF d < 0 THEN -d ELSE d) <= TopTolerance
             THEN GroupLoop(Tail(rest), Append(curr, Head(rest)), grouped)
             ELSE GroupLoop(Tail(rest), <<Head(rest)>>, Append(grouped, curr))

\* lines, for the words of one page
GroupLines(ws) ==
    Let(SortByField(<<>>, ws, "top"), LAMBDA sorted_words :
        IF sorted_words = <<>> THEN <<>>
        ELSE GroupLoop(Tail(sorted_words), <<Head(sorted_words)>>, <<>>))

\* for role, gutter in col_map.items(): the first band that holds w['x0'];
\* a word in no band is description text between 10% and 70% of the width
RoleOf(w, cmap, width) ==
    LET fits(r) == cmap[r].x0 - GutterTolerance <= w.x0 /\ w.x0 <= cmap[r].x1 + GutterTolerance
    IN  IF fits("date") THEN "date"
        ELSE IF fits("desc") THEN "desc"
        ELSE IF fits("amt") THEN "amt"
        ELSE IF width < 10 * w.x0 /\ 10 * w.x0 < 7 * width THEN "desc"
        ELSE "none"

\* row_date_text, row_desc_parts, row_amt_parts after the words of a line
RECURSIVE RowLoop(_, _, _, _)
RowLoop(ws, cmap, width, parts) ==
    IF ws = <<>> THEN parts
    ELSE Let(RoleOf(Head(ws), cmap, width), LAMBDA r :
             RowLoop(Tail(ws), cmap, width,
                     IF r = "date" THEN [parts EXCEPT !.date_text = @ \o <<" ">> \o Head(ws).text]
                     ELSE IF r = "amt" THEN [parts EXCEPT !.amt = Append(@, Head(ws).text)]
                     ELSE IF r = "desc" THEN [parts EXCEPT !.desc = Append(@, Head(ws).text)]
                     ELSE parts))
RowParts(line_words, cmap, width) ==
    RowLoop(SortByField(<<>>, line_words, "x0"), cmap, width,
            [date_text |-> Empty, desc |-> <<>>, amt |-> <<>>])

\* the description of a row: the description words, else every word of the
\* line that is not one of the amount words
VisualDescription(line_words, parts) ==
    Let(Strip(JoinWords(parts.desc)), LAMBDA d :
        IF d # Empty THEN d
        ELSE Strip(JoinWords(SelectSeq([i \in DOMAIN line_words |-> line_words[i].text],
                                       LAMBDA t : \A j \in DOMAIN parts.amt : parts.amt[j] # t))))

ContinuationNoise == {<<"p", "a", "g", "e">>, <<"a", "c", "c", "o", "u", "n", "t">>}

\* the continuation appended to the first candidate instead of the last
AppendContinuationFirst(txns, content) ==
    [txns EXCEPT ![1].description = @ \o <<" ">> \o content]

\* transactions[-1]['description'] += " " + content
AppendContinuation(txns, content) ==
    [txns EXCEPT ![Len(txns)].description = @ \o <<" ">> \o content]

\* the body of "for line_words in lines": transactions and last_date after it
VisualLine(line_words, cmap, width, year, txns, last) ==
    Let(RowParts(line_words, cmap, width), LAMBDA parts :
    Let(FindDate(Strip(parts.date_text), year), LAMBDA found :
    Let(IF found # None THEN found ELSE last, LAMBDA new_last :
        IF parts.amt # <<>>
        THEN Let(ClassifyAmounts(parts.amt), LAMBDA cls :
                 [transactions |->
                      Append(txns, Candidate(IF new_last # None THEN new_last ELSE Empty,
                                             VisualDescription(line_words, parts),
                                             cls[1], cls[2], cls[3])),
                  last_date |-> new_last])
        ELSE IF txns # <<>> /\ parts.desc # <<>>
        THEN Let(Strip(JoinWords(parts.desc)), LAMBDA content :
                 IF Len(content) > MinContinuation
                        /\ ~\E kw \in ContinuationNoise : ContainsStr(Lower(content), kw)
                 THEN [transactions |-> AppendContinuation(txns, content), last_date |-> new_last]
                 ELSE [transactions |-> txns, last_date |-> new_last])
        ELSE [transactions |-> txns, last_date |-> new_last])))

(***************************************************************************)
(* Specification of _parse_visual_greedy                                   *)
(***************************************************************************)
VWord(t, x0, top) == [text |-> t, x0 |-> x0, x1 |-> x0 + 40, top |-> top]

VW_Date == <<"D", "a", "t", "e">>
VW_Description == <<"D", "e", "s", "c", "r", "i", "p", "t", "i", "o", "n">>
VW_Amount == <<"A", "m", "o", "u", "n", "t">>
VW_25_06_2024 == <<"2", "5", "/", "0", "6", "/", "2", "0", "2", "4">>
VW_26_06 == <<"2", "6", "/", "0", "6">>
VW_Coffee == <<"C", "o", "f", "f", "e", "e">>
VW_Rent == <<"R", "e", "n", "t">>
VW_shop == <<"s", "h", "o", "p">>
VW_ref == <<"r", "e", "f">>
VW_ab == <<"a", "b">>
VW_Page == <<"P", "a", "g", "e">>
VW_2 == <<"2">>
VW_25p00 == <<"2", "5", ".", "0", "0">>
VW_m100p00 == <<"-", "1", "0", "0", ".", "0", "0">>
VW_250c00 == <<"2", "5", "0", ",", "0", "0">>
VW_5c00 == <<"5", ",", "0", "0">>

\* the lines a page is made of: words with the offset of their top in the line
Line_Header == <<VWord(VW_Date, 10, 0), VWord(VW_Description, 100, 0), VWord(VW_Amount, 400, 0)>>
Line_Row == <<VWord(VW_25_06_2024, 10, 0), VWord(VW_Coffee, 100, 0), VWord(VW_25p00, 410, 0)>>
Line_RowNoDate == <<VWord(VW_m100p00, 410, 0), VWord(VW_250c00, 500, 1), VWord(VW_Rent, 100, 2)>>
Line_AmountOnly == <<VWord(VW_5c00, 410, 0)>>
Line_Continuation == <<VWord(VW_shop, 100, 0)>>
Line_DatedContinuation == <<VWord(VW_26_06, 10, 0), VWord(VW_ref, 100, 0)>>
Line_Short == <<VWord(VW_ab, 100, 0)>>
Line_Page == <<VWord(VW_Page, 100, 0), VWord(VW_2, 150, 0)>>
Line_Margin == <<VWord(VW_shop, 450, 0)>>

PageBreak == [break |-> TRUE, words |-> <<>>]
VisualEntries ==
    {PageBreak}
        \cup {[break |-> FALSE, words |-> l] :
                l \in {Line_Header, Line_Row, Line_RowNoDate, Line_AmountOnly, Line_Continuation,
                       Line_DatedContinuation, Line_Short, Line_Page, Line_Margin}}

\* the words of the pages, the lines of a page 10 apart
RECURSIVE PagesLoop(_, _, _, _)
PagesLoop(entries, pages, ws, top) ==
    IF entries = <<>> THEN Append(pages, ws)
    ELSE IF Head(entries).break THEN PagesLoop(Tail(entries), Append(pages, ws), <<>>, 0)
    ELSE PagesLoop(Tail(entries), pages,
                   ws \o [i \in DOMAIN Head(entries).words |->
                             [Head(entries).words[i] EXCEPT !.top = @ + top]],
                   top + 10)
PagesOf(entries) ==
    LET ps == PagesLoop(entries, <<>>, <<>>, 0)
    IN  [i \in DOMAIN ps |-> [words |-> ps[i], width |-> 600]]

MaxVisualLines == 3

InitVisual ==
    /\ pc = "visual"
    /\ vis_pages \in {PagesOf(e) : e \in SeqsUpTo(VisualEntries, MaxVisualLines)}
    /\ vis_year \in FindYearDefaults
    /\ vis_col_map = <<>>
    /\ vis_page = 0
    /\ vis_lines = <<>>
    /\ vis_line = 0
    /\ vis_transactions = <<>>
    /\ vis_last_date = None
    /\ AmountIdle /\ DateIdle /\ FindIdle /\ ClassifyIdle /\ ProcessIdle /\ MergeIdle /\ TextIdle /\ ReferenceIdle /\ GutterIdle /\ CleanIdle /\ SelectIdle /\ DescriptionIdle /\ JobsIdle

\* col_map = self._detect_column_map(pdf.pages[0]), then the first page
OpenPdf ==
    /\ pc = "visual"
    /\ vis_col_map' = DetectColumnMap(vis_pages[1].words, vis_pages[1].width)
    /\ vis_page' = 1
    /\ vis_lines' = GroupLines(vis_pages[1].words)
    /\ vis_line' = 1
    /\ pc' = "visual_scan"
    /\ UNCHANGED <<vis_pages, vis_year, vis_transactions, vis_last_date>>
    /\ UNCHANGED <<amount_vars, date_vars, find_vars, classify_vars, process_vars, merge_vars, text_vars, reference_vars, gutter_vars, clean_vars, select_vars, description_vars, jobs_vars>>

\* one pass of "for line_words in lines"
ScanLine ==
    /\ pc = "visual_scan"
    /\ vis_line <= Len(vis_lines)
    /\ LET after == VisualLine(vis_lines[vis_line], vis_col_map, vis_pages[vis_page].width,
                               vis_year, vis_transactions, vis_last_date)
       IN  vis_transactions' = after.transactions /\ vis_last_date' = after.last_date
    /\ vis_line' = vis_line + 1
    /\ UNCHANGED <<pc, vis_pages, vis_year, vis_col_map, vis_page, vis_lines>>
    /\ UNCHANGED <<amount_vars, date_vars, find_vars, classify_vars, process_vars, merge_vars, text_vars, reference_vars, gutter_vars, clean_vars, select_vars, description_vars, jobs_vars>>

\* the next pass of "for page in pdf.pages"
NextPage ==
    /\ pc = "visual_scan"
    /\ vis_line > Len(vis_lines)
    /\ vis_page < Len(vis_pages)
    /\ vis_page' = vis_page + 1
    /\ vis_lines' = GroupLines(vis_pages[vis_page + 1].words)
    /\ vis_line' = 1
    /\ UNCHANGED <<pc, vis_pages, vis_year, vis_col_map, vis_transactions, vis_last_date>>
    /\ UNCHANGED <<amount_vars, date_vars, find_vars, classify_vars, process_vars, merge_vars, text_vars, reference_vars, gutter_vars, clean_vars, select_vars, description_vars, jobs_vars>>

\* return transactions
ReturnVisual ==
    /\ pc = "visual_scan"
    /\ vis_line > Len(vis_lines)
    /\ vis_page = Len(vis_pages)
    /\ pc' = "visual_parsed"
    /\ UNCHANGED <<vis_pages, vis_year, vis_col_map, vis_page, vis_lines, vis_line, vis_transactions, vis_last_date>>
    /\ UNCHANGED <<amount_vars, date_vars, find_vars, classify_vars, process_vars, merge_vars, text_vars, reference_vars, gutter_vars, clean_vars, select_vars, description_vars, jobs_vars>>

NextVisual == OpenPdf \/ ScanLine \/ NextPage \/ ReturnVisual

SpecVisual == InitVisual /\ [][NextVisual]_vars

(***************************************************************************)
(* Claims about the visual row parser                                      *)
(***************************************************************************)
\* C21: a line with at least one amount-role word appends a new candidate,
\* dated with the line's resolved date, else the last resolved date, else
\* empty, and leaves the earlier candidates as they are; a line with no
\* amount-role word but with description text, when a candidate exists, is
\* appended to the description of the most recent candidate and to no other,
\* unless its text is at most 2 characters long or contains "page" or
\* "account"; every other line leaves the candidates unchanged.
C21_Continuation ==
    [][(pc = "visual_scan" /\ vis_line' = vis_line + 1) =>
        LET parts   == RowParts(vis_lines[vis_line], vis_col_map, vis_pages[vis_page].width)
            found   == FindDate(Strip(parts.date_text), vis_year)
            content == Strip(JoinWords(parts.desc))
            n       == Len(vis_transactions)
        IN  IF parts.amt # <<>>
            THEN /\ Len(vis_transactions') = n + 1
                 /\ SubSeq(vis_transactions', 1, n) = vis_transactions
                 /\ vis_transactions'[n + 1].date =
                        IF found # None THEN found
                        ELSE IF vis_last_date # None THEN vis_last_date ELSE Empty
            ELSE IF /\ parts.desc # <<>>
                    /\ n > 0
                    /\ Len(content) > 2
                    /\ ~ContainsStr(Lower(content), <<"p", "a", "g", "e">>)
                    /\ ~ContainsStr(Lower(content), <<"a", "c", "c", "o", "u", "n", "t">>)
            THEN /\ Len(vis_transactions') = n
                 /\ SubSeq(vis_transactions', 1, n - 1) = SubSeq(vis_transactions, 1, n - 1)
                 /\ vis_transactions'[n] =
                        [vis_transactions[n] EXCEPT !.description = @ \o <<" ">> \o content]
            ELSE vis_transactions' = vis_transactions]_vars

\* two rows, then the line "shop": it went to the second candidate only, and
\* that candidate, a row without a date, carries the date of the first
C21_Witness ==
    /\ pc = "visual_parsed"
    /\ Len(vis_transactions) = 2
    /\ vis_transactions[1].description = <<"C", "o", "f", "f", "e", "e">>
    /\ vis_transactions[2].description = <<"R", "e", "n", "t", " ", "s", "h", "o", "p">>
    /\ vis_transactions[2].date = vis_transactions[1].date
    /\ vis_transactions[1].date = <<"2", "5", "/", "0", "6", "/", "2", "0", "2", "4">>

(***************************************************************************)
(* Claims about the order of the text row parser                           *)
(***************************************************************************)
\* the line holds at least one amount token
C22_HasAmounts(l) == FindAllAmounts(Strip(l), 1) # <<>>
\* the date found on the line, None when there is none
C22_LineDate(l) ==
    LET m == SearchTextDate(Strip(l))
    IN  IF Strip(l) = Empty \/ m = <<>> THEN None ELSE FindDate(m, doc_year)
\* the date of the last of the lines 1..k on which a date is found, else empty
C22_DateAt(k) ==
    LET dated == {j \in 1..k : C22_LineDate(lines[j]) # None}
    IN  IF dated = {} THEN Empty ELSE C22_LineDate(lines[Max(dated)])
\* the lines with amounts, in order
C22_AmountLines == SelectSeq([k \in DOMAIN lines |-> k], LAMBDA k : C22_HasAmounts(lines[k]))

\* C22: scanning the lines in order, the text row parser produces exactly
\* one candidate for each line that contains an amount token and none for any
\* other line; the date of a candidate is the date found on its line, else
\* the most recent date found on an earlier line, else empty; a line without
\* amounts only updates the carried date.
C22_OneRowPerAmountLine ==
    pc = "text_parsed" =>
        /\ Len(text_rows) = Len(C22_AmountLines)
        /\ \A i \in DOMAIN text_rows : text_rows[i].date = C22_DateAt(C22_AmountLines[i])
        /\ last_date = (IF C22_DateAt(Len(lines)) = Empty THEN None ELSE C22_DateAt(Len(lines)))

\* a line with a date and no amount, then a line with an amount and no date:
\* one candidate, dated by the first line
C22_Witness ==
    /\ pc = "text_parsed"
    /\ lines = <<Line_DateOnly, Line_NoDate>>
    /\ Len(text_rows) = 1
    /\ text_rows[1].date = <<"2", "6", "/", "0", "6", "/", "2", "0", "2", "4">>
    /\ text_rows[1].description = <<"C", "o", "f", "f", "e", "e">>

(***************************************************************************)
(* Specification of _clean_description                                     *)
(***************************************************************************)
DescriptionTokens == {<<"a", "b", "c">>, <<"A", "B", "C">>, <<"a", "b">>, <<"-">>, <<"*">>, <<"x", "-">>, <<"-", "-">>}
MaxDescriptionTokens == 3
\* the tokens joined by one blank, bare or with a blank on each side
DescriptionInputs ==
    {JoinWords(ts) : ts \in SeqsUpTo(DescriptionTokens, MaxDescriptionTokens)}
        \cup {<<" ">> \o JoinWords(ts) \o <<" ">> : ts \in SeqsUpTo(DescriptionTokens, MaxDescriptionTokens)}

InitDescription ==
    /\ pc = "description"
    /\ description_str \in DescriptionInputs
    /\ cleaned_description = Empty
    /\ AmountIdle /\ DateIdle /\ FindIdle /\ ClassifyIdle /\ ProcessIdle /\ MergeIdle /\ TextIdle /\ ReferenceIdle /\ GutterIdle /\ CleanIdle /\ SelectIdle /\ VisualIdle /\ JobsIdle

CleanDescriptionStep ==
    /\ pc = "description"
    /\ cleaned_description' = CleanDescription(description_str)
    /\ pc' = "description_cleaned"
    /\ UNCHANGED description_str
    /\ UNCHANGED <<amount_vars, date_vars, find_vars, classify_vars, process_vars, merge_vars, text_vars, reference_vars, gutter_vars, clean_vars, select_vars, visual_vars, jobs_vars>>

NextDescription == CleanDescriptionStep

SpecDescription == InitDescription /\ [][NextDescription]_vars

(***************************************************************************)
(* Claims about the cleaning of descriptions                               *)
(***************************************************************************)
\* no two whitespace characters in a row
C23_NoBlankRun(s) == \A i \in 1..(Len(s) - 1) : ~(s[i] \in Whitespace /\ s[i + 1] \in Whitespace)
\* neither the first nor the last character is a dash or an asterisk
C23_NoStrayEnds(s) == s = Empty \/ (s[1] \notin {"-", "*"} /\ s[Len(s)] \notin {"-", "*"})
\* the words that stay: a word goes iff it is longer than 2 characters and an
\* equal word, case ignored, stands before it
C23_Kept(ws) ==
    LET idx == SelectSeq([i \in DOMAIN ws |-> i],
                         LAMBDA i : ~(Len(ws[i]) > 2 /\ \E j \in 1..(i - 1) : Lower(ws[j]) = Lower(ws[i])))
    IN  [k \in DOMAIN idx |-> ws[idx[k]]]
\* the words of the description once the patterns of the noise are removed
C23_Words(s) ==
    SplitWS(Strip(CollapseBlanks(SubLeading(SubTrailingDash(
        SubLeading(JoinWords(SplitWS(s)), "-")), "*"))))

\* the removal of duplicate words alone: it is as C23 says
C23_Duplicates ==
    pc = "description_cleaned" =>
        /\ C23_NoBlankRun(cleaned_description)
        /\ description_str # Empty =>
               SplitWS(cleaned_description) = C23_Kept(C23_Words(description_str))

\* C23: for every description, _clean_description returns a string with no
\* run of two or more whitespace characters, which neither begins nor ends
\* with a stray '-' or '*', and in which a word is removed iff it is longer
\* than 2 characters and an equal word (case-insensitive) occurs earlier,
\* the order and the casing of the kept words unchanged.
C23_CleanDescription ==
    /\ C23_Duplicates
    /\ pc = "description_cleaned" => C23_NoStrayEnds(cleaned_description)

(***************************************************************************)
(* app.py: convert_pdf, download_file and cleanup_job over the dict jobs    *)
(* and the files under uploads/ and outputs/.                               *)
(*                                                                         *)
(* convert_pdf and download_file are one step each.  cleanup_job is cut    *)
(* into the steps between which another request can run: the membership   *)
(* test, the lookup, each os.path.exists, each os.remove and the del.      *)
(***************************************************************************)
MaxJobs == 2
JobIds == 1..MaxJobs
Workers == {1, 2}

\* os.path.join(UPLOAD_FOLDER, unique_filename)
UploadPath(j) == <<"uploads", j>>
\* the path ExcelGenerator.generate returns for f"{job_id}_transactions.xlsx"
OutputPath(j) == <<"outputs", j>>

NoResponse ==
    [handler |-> "none", job |-> 0, status |-> 0, message |-> "",
     output_format |-> "", download_url |-> FALSE, warning |-> FALSE]
Error(handler, j, status, message) ==
    [NoResponse EXCEPT !.handler = handler, !.job = j, !.status = status, !.message = message]

\* GoogleSheetsExporter._get_service: the FileNotFoundError raised when the
\* credentials file is missing is caught by "except Exception" and raised
\* again as a plain Exception
GetService(creds) == IF creds THEN "service" ELSE "Exception"

\* GoogleSheetsExporter.export_transactions: the sheet url or what is raised
ExportTransactions(creds, sheets) ==
    IF GetService(creds) # "service" THEN GetService(creds)
    ELSE IF sheets = "raises" THEN "Exception"
    ELSE "url"

\* a request to /api/convert and what its collaborators do with it
ConvertRequests ==
    [file : {"missing", "unnamed", "large", "not_pdf", "pdf"},
     output_format : {"excel", "google_sheets", "csv"},
     parse : {"raises", "empty", "found"},
     process : {"empty", "valid"},
     excel : {"written", "raises"},
     sheets : {"exported", "raises"}]

\* the checks made before the file is saved
ConvertValid(req) == req.file = "pdf" /\ req.output_format \in {"excel", "google_sheets"}

\* the branch convert_pdf ends in once the file is saved
ConvertOutcome(req, creds) ==
    IF req.parse = "raises" THEN "error"
    ELSE IF req.parse = "empty" THEN "no_transactions"
    ELSE IF req.process = "empty" THEN "not_processed"
    ELSE IF req.output_format = "excel"
    THEN (IF req.excel = "raises" THEN "error" ELSE "excel")
    ELSE LET exported == ExportTransactions(creds, req.sheets)
         IN  IF exported = "url" THEN "sheets"
             ELSE IF exported = "FileNotFoundError"
             THEN (IF req.excel = "raises" THEN "error" ELSE "fallback")
             ELSE "error"

\* jobs[job_id] = {...}
Store(js, j) ==
    [k \in (DOMAIN js) \cup {j} |->
        IF k = j THEN [upload_path |-> UploadPath(j), output_path |-> OutputPath(j)] ELSE js[k]]
\* del jobs[job_id]
Delete(js, j) == [k \in (DOMAIN js) \ {j} |-> js[k]]

\* the 400 answers given before anything is saved
ConvertRejected(req) ==
    /\ ~ConvertValid(req)
    /\ response' = Error("convert", 0, 400, "invalid request")
    /\ UNCHANGED <<jobs, disk, credentials, next_job, registered, cleaned,
                   worker_pc, worker_job, worker_live, worker_data, worker_resp>>

\* if os.path.exists(path): os.remove(path), skipped
RemoveIfExistsSkipped(files, path) == files

\* if os.path.exists(path): os.remove(path)
RemoveIfExists(files, path) == files \ {path}

\* convert_pdf from the saving of the upload to the response: file.save, then
\* the branch taken; every branch but the two that store the job removes
\* the upload (the except branch included)
ConvertAccepted(req) ==
    /\ ConvertValid(req)
    /\ next_job < MaxJobs
    /\ LET j == next_job + 1
           saved == disk \cup {UploadPath(j)}
           outcome == ConvertOutcome(req, credentials)
       IN  /\ next_job' = j
           /\ IF outcome \in {"excel", "fallback"}
              THEN /\ disk' = saved \cup {OutputPath(j)}
                   /\ jobs' = Store(jobs, j)
                   /\ registered' = registered \cup {j}
                   /\ response' = [handler |-> "convert", job |-> j, status |-> 200,
                                   message |-> "success", output_format |-> "excel",
                                   download_url |-> TRUE, warning |-> outcome = "fallback"]
              ELSE /\ disk' = RemoveIfExists(saved, UploadPath(j))
                   /\ UNCHANGED <<jobs, registered>>
                   /\ response' =
                          IF outcome = "sheets"
                          THEN [handler |-> "convert", job |-> j, status |-> 200,
                                message |-> "Successfully exported to Google Sheets",
                                output_format |-> "google_sheets",
                                download_url |-> FALSE, warning |-> FALSE]
                          ELSE IF outcome = "error"
                          THEN Error("convert", j, 500, "Failed to process PDF")
                          ELSE Error("convert", j, 400, outcome)
    /\ UNCHANGED <<credentials, cleaned, worker_pc, worker_job, worker_live, worker_data, worker_resp>>

\* download_file as its docstring has it ("Download generated Excel file and
\* clean up"): the job and its files are removed once the file is served
DownloadAndCleanUp(j) ==
    /\ response' =
           IF j \notin DOMAIN jobs THEN Error("download", j, 404, "Job not found or expired")
           ELSE IF jobs[j].output_path \notin disk THEN Error("download", j, 404, "File not found")
           ELSE [Error("download", j, 200, "file") EXCEPT !.output_format = "excel"]
    /\ jobs' = Delete(jobs, j)
    /\ disk' = disk \ {UploadPath(j), OutputPath(j)}
    /\ UNCHANGED <<credentials, next_job, registered, cleaned,
                   worker_pc, worker_job, worker_live, worker_data, worker_resp>>

\* download_file
Download(j) ==
    /\ response' =
           IF j \notin DOMAIN jobs THEN Error("download", j, 404, "Job not found or expired")
           ELSE IF jobs[j].output_path \notin disk THEN Error("download", j, 404, "File not found")
           ELSE [Error("download", j, 200, "file") EXCEPT !.output_format = "excel"]
    /\ UNCHANGED <<jobs, disk, credentials, next_job, registered, cleaned,
                   worker_pc, worker_job, worker_live, worker_data, worker_resp>>

\* a request to /api/cleanup/<job_id> arrives
StartCleanup(w, j) ==
    /\ worker_pc[w] = "idle"
    /\ worker_pc' = [worker_pc EXCEPT ![w] = "check"]
    /\ worker_job' = [worker_job EXCEPT ![w] = j]
    /\ worker_live' = [worker_live EXCEPT ![w] = j \in DOMAIN jobs]
    /\ worker_resp' = [worker_resp EXCEPT ![w] = NoResponse]
    /\ UNCHANGED <<jobs, disk, credentials, next_job, response, registered, cleaned, worker_data>>

\* the response of a cleanup_job request and the end of it
Respond(w, status, message) ==
    /\ worker_resp' = [worker_resp EXCEPT ![w] = Error("cleanup", worker_job[w], status, message)]
    /\ worker_pc' = [worker_pc EXCEPT ![w] = "idle"]
Goto(w, label) ==
    /\ worker_pc' = [worker_pc EXCEPT ![w] = label]
    /\ UNCHANGED worker_resp

\* if job_id not in jobs: return 200
CheckJob(w) ==
    /\ worker_pc[w] = "check"
    /\ IF worker_job[w] \notin DOMAIN jobs
       THEN Respond(w, 200, "Job already cleaned up or not found")
       ELSE Goto(w, "lookup")
    /\ UNCHANGED <<jobs, disk, credentials, next_job, response, registered, cleaned,
                   worker_job, worker_live, worker_data>>

\* job_data = jobs[job_id]: a KeyError ends in the except branch
LookupJob(w) ==
    /\ worker_pc[w] = "lookup"
    /\ IF worker_job[w] \in DOMAIN jobs
       THEN /\ worker_data' = [worker_data EXCEPT ![w] = jobs[worker_job[w]]]
            /\ Goto(w, "upload_exists")
       ELSE /\ Respond(w, 500, "Failed to clean up files")
            /\ UNCHANGED worker_data
    /\ UNCHANGED <<jobs, disk, credentials, next_job, response, registered, cleaned, worker_job, worker_live>>

\* if os.path.exists(job_data[field])
PathExists(w, field, label, yes, no) ==
    /\ worker_pc[w] = label
    /\ Goto(w, IF worker_data[w][field] \in disk THEN yes ELSE no)
    /\ UNCHANGED <<jobs, disk, credentials, next_job, response, registered, cleaned,
                   worker_job, worker_live, worker_data>>

\* os.remove(job_data[field]): a FileNotFoundError ends in the except branch
RemovePath(w, field, label, next) ==
    /\ worker_pc[w] = label
    /\ IF worker_data[w][field] \in disk
       THEN /\ disk' = disk \ {worker_data[w][field]}
            /\ Goto(w, next)
       ELSE /\ Respond(w, 500, "Failed to clean up files")
            /\ UNCHANGED disk
    /\ UNCHANGED <<jobs, credentials, next_job, response, registered, cleaned,
                   worker_job, worker_live, worker_data>>

UploadExists(w) == PathExists(w, "upload_path", "upload_exists", "upload_remove", "output_exists")
RemoveUpload(w) == RemovePath(w, "upload_path", "upload_remove", "output_exists")
OutputExists(w) == PathExists(w, "output_path", "output_exists", "output_remove", "delete")
RemoveOutput(w) == RemovePath(w, "output_path", "output_remove", "delete")

\* del jobs[job_id]: a KeyError ends in the except branch
DeleteJob(w) ==
    /\ worker_pc[w] = "delete"
    /\ IF worker_job[w] \in DOMAIN jobs
       THEN /\ jobs' = Delete(jobs, worker_job[w])
            /\ cleaned' = cleaned \cup {worker_job[w]}
            /\ Respond(w, 200, "Files cleaned up successfully")
       ELSE /\ Respond(w, 500, "Failed to clean up files")
            /\ UNCHANGED <<jobs, cleaned>>
    /\ UNCHANGED <<disk, credentials, next_job, response, registered, worker_job, worker_live, worker_data>>

CleanupStep(w) ==
    \/ CheckJob(w) \/ LookupJob(w) \/ UploadExists(w) \/ RemoveUpload(w)
    \/ OutputExists(w) \/ RemoveOutput(w) \/ DeleteJob(w)

Others ==
    UNCHANGED <<amount_vars, date_vars, find_vars, classify_vars, process_vars, merge_vars, text_vars, reference_vars, gutter_vars, clean_vars, select_vars, visual_vars, description_vars>>

(***************************************************************************)
(* Specifications: requests one after the other, and requests that overlap *)
(***************************************************************************)
InitJobs ==
    /\ pc = "serving"
    /\ jobs = <<>>
    /\ disk = {}
    /\ credentials \in BOOLEAN
    /\ next_job = 0
    /\ response = NoResponse
    /\ registered = {}
    /\ cleaned = {}
    /\ worker_pc = [w \in Workers |-> "idle"]
    /\ worker_job = [w \in Workers |-> 0]
    /\ worker_live = [w \in Workers |-> FALSE]
    /\ worker_data = [w \in Workers |-> <<>>]
    /\ worker_resp = [w \in Workers |-> NoResponse]
    /\ AmountIdle /\ DateIdle /\ FindIdle /\ ClassifyIdle /\ ProcessIdle /\ MergeIdle /\ TextIdle /\ ReferenceIdle /\ GutterIdle /\ CleanIdle /\ SelectIdle /\ VisualIdle /\ DescriptionIdle

\* no cleanup_job request is under way
Quiet == \A w \in Workers : worker_pc[w] = "idle"

\* one request at a time
NextJobs ==
    /\ UNCHANGED pc
    /\ Others
    /\ \/ Quiet /\ \E req \in ConvertRequests : ConvertRejected(req)
       \/ Quiet /\ \E req \in ConvertRequests : ConvertAccepted(req)
       \/ Quiet /\ \E j \in JobIds : Download(j)
       \/ Quiet /\ \E j \in JobIds : StartCleanup(1, j)
       \/ CleanupStep(1)

SpecJobs == InitJobs /\ [][NextJobs]_vars

\* the requests of a threaded server: each step of a cleanup_job request may
\* be followed by a step of any other request
NextServer ==
    /\ UNCHANGED pc
    /\ Others
    /\ \/ \E req \in ConvertRequests : ConvertRejected(req)
       \/ \E req \in ConvertRequests : ConvertAccepted(req)
       \/ \E j \in JobIds : Download(j)
       \/ \E w \in Workers, j \in JobIds : StartCleanup(w, j)
       \/ \E w \in Workers : CleanupStep(w)

SpecServer == InitJobs /\ [][NextServer]_vars

(***************************************************************************)
(* C24: output_format 'google_sheets' without the credentials file          *)
(***************************************************************************)
\* a convertible PDF sent for Google Sheets, with an Excel generator that works
C24_Request(req) ==
    /\ req.file = "pdf" /\ req.output_format = "google_sheets"
    /\ req.parse = "found" /\ req.process = "valid" /\ req.excel = "written"

\* C24: when /api/convert is called with output_format 'google_sheets' and the
\* credentials file does not exist, the request does not fail: the response is
\* 200 with output_format 'excel', a download_url and a warning, the job is
\* registered in jobs and its upload and its Excel file are on disk.
C24_SheetsFallback ==
    [][\A req \in ConvertRequests :
          (C24_Request(req) /\ ~credentials /\ ConvertAccepted(req))
          => /\ response'.status = 200
             /\ response'.output_format = "excel"
             /\ response'.download_url
             /\ response'.warning
             /\ response'.job \in DOMAIN jobs'
             /\ jobs'[response'.job].upload_path \in disk'
             /\ jobs'[response'.job].output_path \in disk']_vars

\* what the request gets instead: the 500 of the except branch, no job and no
\* upload left
C24_SheetsFailure ==
    [][\A req \in ConvertRequests :
          (C24_Request(req) /\ ~credentials /\ ConvertAccepted(req))
          => /\ response'.status = 500
             /\ response'.job \notin DOMAIN jobs'
             /\ UploadPath(response'.job) \notin disk']_vars

\* no response of convert_pdf carries the warning of the fallback
C24_NoWarning == ~response.warning

(***************************************************************************)
(* C25: downloads and cleanups in a sequence of requests                    *)
(***************************************************************************)
\* the ids stored by a convert that produced an Excel file and not cleaned up since
C25_Live == registered \ cleaned

\* the step is a download of j: convert_pdf answers as "convert", and every
\* step of cleanup_job moves its worker
C25_DownloadStep(j) ==
    /\ response'.handler = "download" /\ response'.job = j
    /\ UNCHANGED <<worker_pc, next_job>>

\* a download serves the file iff the id is live, answers 404 otherwise, and
\* removes nothing
C25_Download ==
    \A j \in JobIds :
        C25_DownloadStep(j)
        => /\ response'.status = (IF j \in C25_Live THEN 200 ELSE 404)
           /\ jobs' = jobs /\ disk' = disk
           /\ UNCHANGED <<registered, cleaned>>

\* a cleanup of an id that is not live answers 200 at its first step and
\* changes nothing
C25_Cleanup ==
    \A w \in Workers :
        (worker_pc[w] # "idle" /\ worker_job[w] \notin C25_Live)
        => /\ worker_pc'[w] = "idle"
           /\ worker_resp'[w].status = 200
           /\ worker_resp'[w].message = "Job already cleaned up or not found"
           /\ jobs' = jobs /\ disk' = disk

C25_LiveJobs ==
    Quiet => /\ DOMAIN jobs = C25_Live
             /\ \A j \in DOMAIN jobs : jobs[j].output_path \in disk

C26_Recorded(js, path) == \E k \in DOMAIN js : js[k].upload_path = path

\* the step is a convert request that saved its upload: it drew a job id
C26_ConvertStep == response'.handler = "convert" /\ next_job' = next_job + 1

\* once the request has returned, the upload it saved is on disk iff an entry
\* of jobs records it, whatever the outcome
C26_Convert ==
    C26_ConvertStep
    => /\ response'.job = next_job'
       /\ UploadPath(next_job') \in disk' <=> C26_Recorded(jobs', UploadPath(next_job'))

\* a request turned away by the validation saves nothing
C26_Rejected ==
    (response'.handler = "convert" /\ response'.job = 0 /\ UNCHANGED worker_pc)
    => disk' = disk /\ jobs' = jobs

\* the step that answers 'Files cleaned up successfully' leaves neither of the
\* two files nor the entry
C26_Cleanup ==
    \A w \in Workers :
        (worker_pc[w] # "idle" /\ worker_pc'[w] = "idle"
         /\ worker_resp'[w].message = "Files cleaned up successfully")
        => /\ worker_job[w] \notin DOMAIN jobs'
           /\ UploadPath(worker_job[w]) \notin disk'
           /\ OutputPath(worker_job[w]) \notin disk'

\* C26: after any /api/convert request has returned, whatever its outcome, the
\* upload it saved is on disk iff an entry of jobs records its upload_path,
\* and after a successful cleanup of the job neither the upload nor the output
\* file exists and the entry is gone.
C26_NoOrphanedUploads == [][C26_Convert /\ C26_Rejected /\ C26_Cleanup]_vars

\* between requests, the uploads on disk are those the entries of jobs record
C26_UploadsRecorded ==
    Quiet => \A j \in JobIds : UploadPath(j) \in disk <=> C26_Recorded(jobs, UploadPath(j))

\* a job was cleaned up with success, and the convert that followed exported
\* to Google Sheets and left no upload behind
C26_Witness ==
    /\ Quiet
    /\ worker_resp[1].message = "Files cleaned up successfully"
    /\ worker_job[1] \in cleaned
    /\ response.handler = "convert" /\ response.output_format = "google_sheets"
    /\ UploadPath(response.job) \notin disk
    /\ response.job \notin DOMAIN jobs

(***************************************************************************)
(* C27: two cleanup requests for one job whose steps interleave             *)
(***************************************************************************)
\* both requests arrived while j was in jobs and both have been answered
C27_BothAnswered(j) ==
    /\ j \in registered
    /\ \A w \in Workers :
          /\ worker_pc[w] = "idle"
          /\ worker_resp[w].handler = "cleanup" /\ worker_resp[w].job = j
          /\ worker_live[w]

\* afterwards the job is absent from jobs and both files are deleted
C27_Afterwards ==
    \A j \in JobIds :
        C27_BothAnswered(j)
        => j \notin DOMAIN jobs /\ UploadPath(j) \notin disk /\ OutputPath(j) \notin disk

\* one of the two answers is 'Files cleaned up successfully'
C27_OneSucceeds ==
    \A j \in JobIds :
        C27_BothAnswered(j)
        => \E w \in Workers : worker_resp[w].message = "Files cleaned up successfully"

\* no cleanup request for a job that was in jobs when it arrived is answered 500
C27_NeverFails ==
    \A w \in Workers :
        (worker_resp[w].handler = "cleanup" /\ worker_live[w])
        => /\ worker_resp[w].status = 200
           /\ worker_resp[w].message \in {"Files cleaned up successfully",
                                          "Job already cleaned up or not found"}

\* C27: when two cleanup requests for the same registered job run concurrently
\* under any interleaving of their steps, both respond 200 (one 'cleaned up
\* successfully', the other possibly 'already cleaned up or not found'),
\* neither responds 500, and afterwards the job is absent from jobs and both
\* files are deleted.
C27_ConcurrentCleanup == C27_NeverFails /\ C27_OneSucceeds /\ C27_Afterwards

====
